---- MODULE Spec2Model ----
(***************************************************************************)
(* Playback worker of the music player (start_audio_thread, main.rs):      *)
(* the command loop, the reconstruction of the playback position from      *)
(* wall-clock instants, end-of-track detection and throttled status        *)
(* emission.  The audio sink is the external device: it holds at most one  *)
(* source, a paused flag and a volume, drains on its own while it plays    *)
(* and is empty as soon as Sink::stop returns; its answer to try_seek is   *)
(* not determined by the worker.  One clock tick is the 20 ms of the       *)
(* worker's recv_timeout.                                                  *)
(*                                                                         *)
(* Its consumer, the app (MusicPlayerApp::update): the status events it    *)
(* takes, the position it shows on the progress bar, the buttons, the      *)
(* slider and the playlist.  Durations are in ticks; a tick is far coarser *)
(* than the rounding of the slider's f32 seconds, which is not modelled.   *)
(*                                                                         *)
(* And the two channels between them, with the remote API as a second      *)
(* sender of commands, up to the end of the threads.                       *)
(*                                                                         *)
(* And the playlists: the PlaylistsManager that the app and the handlers   *)
(* of the API share behind a mutex, the sections of the code that lock it  *)
(* and the advance over the current playlist at the end of a track.        *)
(*                                                                         *)
(* Spec is the worker alone, SpecThrottle the worker over a longer time,   *)
(* SpecConsumer the app alone, SpecChannel the whole program, SpecSeek the *)
(* worker and the app through one seek of the user, SpecPlaylist the       *)
(* playlists under their mutex, SpecAdvance the app at the end of a track  *)
(* while the API changes the current playlist, SpecLoad the worker, the    *)
(* app and the API through loads that succeed or fail.                     *)
(***************************************************************************)
EXTENDS Integers, Sequences, FiniteSets, TLC

VARIABLES
    now,                  \* wall clock (Instant::now()), in ticks of 20 ms
    sink,                 \* the rodio Sink: [src, paused, volume]
    last_played_path,     \* Option<PathBuf>
    total_duration,       \* Duration
    playback_start,       \* Option<Instant>
    pause_start,          \* Option<Instant>
    accumulated_pause,    \* Duration
    seek_offset,          \* Duration
    is_playing,
    has_started,
    last_status_time,     \* Instant
    force_status_update,
    out,                  \* status events sent on status_tx by the last pass
    last_step,            \* the last step taken: "init", "cmd", "timeout", ...
    last_cmd,             \* the command most recently taken from cmd_rx
    hist,                 \* observer: facts about the run the claims speak of
    app,                  \* the consumer (MusicPlayerApp): its playback fields
                          \* and the commands its last frame sent on audio_tx
    status_q,             \* the status channel: events sent, not yet received
    render,               \* observer: what the last frame drew on the progress bar
    last_input,           \* the user input the last frame handled
    cmd_q,                \* the command channel: commands sent, not yet taken
    chan,                 \* who is alive: ui (the app, which owns audio_tx,
                          \* audio_rx and port_tx), api (the server thread,
                          \* which owns a clone of audio_tx), running (the
                          \* worker's loop)
    log,                  \* observer: how many commands and events were
                          \* sent and taken, and whether in order
    data,                 \* the PlaylistsManager behind Arc<Mutex<_>>:
                          \* [current_name, lists]
    dialogs,              \* the app's fields of the playlist dialogs
    mutex,                \* who holds the playlist mutex and the lyrics mutex
    pc                    \* where each thread stands with respect to them

worker == <<last_played_path, total_duration, playback_start, pause_start,
            accumulated_pause, seek_offset, is_playing, has_started,
            last_status_time, force_status_update>>

vars == <<now, sink, last_played_path, total_duration, playback_start,
          pause_start, accumulated_pause, seek_offset, is_playing, has_started,
          last_status_time, force_status_update, out, last_step, last_cmd, hist,
          app, status_q, render, last_input, cmd_q, chan, log, data, dialogs,
          mutex, pc>>

channel == <<cmd_q, chan, log>>

consumer == <<app, status_q, render, last_input>>

playlists == <<data, dialogs, mutex, pc>>

----------------------------------------------------------------------------
(* Bounds of the model *)

MaxTime == 3

MaxAppTime == 2

MaxBatch == 1

MaxThrottleTime == 12

(* Program constants, in ticks of 20 ms *)

PollTicks == 1

ThrottleTicks == 5

SecTicks == 50

DefaultVolume == 100

----------------------------------------------------------------------------
(* Option<T> *)

None == << >>

Some(x) == <<x>>

Unwrap(o) == o[1]

----------------------------------------------------------------------------
(* The files the commands name.  "a" carries readable tags (0.5 s) and a   *)
(* stream whose length the decoder cannot tell; "b" has no readable tags   *)
(* and a decoder-reported length of 1.2 s; "bad" does not decode.          *)

Paths == {"a", "b", "bad"}

ReadOk(p) == p \in Paths

DecodeOk(p) == p \in {"a", "b"}

ProbeDuration(p) == IF p = "a" THEN Some(25) ELSE None

DecoderDuration(p) == IF p = "b" THEN Some(60) ELSE None

UnwrapOr(o, d) == IF o = None THEN d ELSE Unwrap(o)

SeekTargets == {3, 60}

Volumes == {50}

----------------------------------------------------------------------------
(* AudioCommand and AudioStatus *)

Cmd(k, p, n) == [kind |-> k, path |-> p, n |-> n]

NoCmd == Cmd("None", "", 0)

PlayFile(p) == Cmd("PlayFile", p, 0)

Pause == Cmd("Pause", "", 0)

Resume == Cmd("Resume", "", 0)

Stop == Cmd("Stop", "", 0)

SetVolume(v) == Cmd("SetVolume", "", v)

Seek(pos) == Cmd("Seek", "", pos)

Commands ==
    {PlayFile(p) : p \in Paths} \cup {Pause, Resume, Stop}
        \cup {SetVolume(v) : v \in Volumes} \cup {Seek(t) : t \in SeekTargets}

Status(pos, dur, playing) ==
    [kind |-> "Status", position |-> pos, duration |-> dur,
     is_playing |-> playing, path |-> ""]

Finished ==
    [kind |-> "Finished", position |-> 0, duration |-> 0,
     is_playing |-> FALSE, path |-> ""]

Started(p) ==
    [kind |-> "Started", position |-> 0, duration |-> 0,
     is_playing |-> FALSE, path |-> p]

----------------------------------------------------------------------------
(* The sink (external device) *)

NewSink == [src |-> None, paused |-> FALSE, volume |-> DefaultVolume]

SinkAppend(k, p) == [k EXCEPT !.src = Some(p)]

SinkPlay(k) == [k EXCEPT !.paused = FALSE]

SinkPause(k) == [k EXCEPT !.paused = TRUE]

SinkStop(k) == [k EXCEPT !.src = None]

SinkEmpty(k) == k.src = None

SinkSetVolume(k, v) == [k EXCEPT !.volume = v]

----------------------------------------------------------------------------
(* The worker's locals as one record, so that a handler is a function of   *)
(* the state before it and the instant t at which it runs.                 *)

Cur ==
    [last_played_path |-> last_played_path, total_duration |-> total_duration,
     playback_start |-> playback_start, pause_start |-> pause_start,
     accumulated_pause |-> accumulated_pause, seek_offset |-> seek_offset,
     is_playing |-> is_playing, has_started |-> has_started,
     last_status_time |-> last_status_time,
     force_status_update |-> force_status_update,
     sink |-> sink, out |-> << >>]

\* mutant: a reset of the timing that leaves pause_start as it was
ResetTiming_KeepsPauseStart(s, t) ==
    [s EXCEPT !.playback_start = Some(t),
              !.accumulated_pause = 0, !.seek_offset = 0,
              !.is_playing = TRUE, !.has_started = TRUE]

\* mutant: a reset of the timing that keeps the seek offset
ResetTiming_KeepsSeek(s, t) ==
    [s EXCEPT !.playback_start = Some(t), !.pause_start = None,
              !.accumulated_pause = 0,
              !.is_playing = TRUE, !.has_started = TRUE]

ResetTiming(s, t) ==
    [s EXCEPT !.playback_start = Some(t), !.pause_start = None,
              !.accumulated_pause = 0, !.seek_offset = 0,
              !.is_playing = TRUE, !.has_started = TRUE]

\* mutant: PlayFile that announces the track before it has read and decoded it
PlayFileCmd_StartedFirst(s, path, t) ==
    LET s1 == [s EXCEPT !.last_played_path = Some(path),
                        !.out = Append(s.out, Started(path))]
    IN  IF ReadOk(path) /\ DecodeOk(path)
        THEN LET dur == IF ProbeDuration(path) # None
                        THEN Unwrap(ProbeDuration(path))
                        ELSE UnwrapOr(DecoderDuration(path), 0)
                 s2 == [s1 EXCEPT !.total_duration = dur,
                                  !.sink = SinkPlay(SinkAppend(NewSink, path))]
             IN  ResetTiming(s2, t)
        ELSE s1

PlayFileCmd(s, path, t) ==
    LET s1 == [s EXCEPT !.last_played_path = Some(path)]
    IN  IF ReadOk(path) /\ DecodeOk(path)
        THEN LET dur == IF ProbeDuration(path) # None
                        THEN Unwrap(ProbeDuration(path))
                        ELSE UnwrapOr(DecoderDuration(path), 0)
                 s2 == [s1 EXCEPT !.total_duration = dur,
                                  !.sink = SinkPlay(SinkAppend(NewSink, path))]
                 s3 == ResetTiming(s2, t)
             IN  [s3 EXCEPT !.out = Append(s3.out, Started(path))]
        ELSE s1

\* mutant: Pause without the is_paused guard
PauseCmd_NoGuard(s, t) ==
    [s EXCEPT !.sink = SinkPause(s.sink), !.pause_start = Some(t),
              !.is_playing = FALSE]

PauseCmd(s, t) ==
    IF ~s.sink.paused
    THEN [s EXCEPT !.sink = SinkPause(s.sink), !.pause_start = Some(t),
                   !.is_playing = FALSE]
    ELSE s

\* mutant: Resume that does not fold the ended pause into accumulated_pause
ResumeCmd_NoFold(s, t) ==
    IF SinkEmpty(s.sink) /\ s.last_played_path # None
    THEN LET path == Unwrap(s.last_played_path)
         IN  IF ReadOk(path) /\ DecodeOk(path)
             THEN ResetTiming(
                      [s EXCEPT !.total_duration =
                                    UnwrapOr(DecoderDuration(path), 0),
                                !.sink = SinkPlay(SinkAppend(s.sink, path))], t)
             ELSE s
    ELSE IF s.sink.paused
    THEN [s EXCEPT !.sink = SinkPlay(s.sink), !.pause_start = None,
                   !.is_playing = TRUE]
    ELSE s

\* mutant: Resume that announces the track it replays
ResumeCmd_AnnouncesReplay(s, t) ==
    IF SinkEmpty(s.sink) /\ s.last_played_path # None
    THEN LET path == Unwrap(s.last_played_path)
         IN  IF ReadOk(path) /\ DecodeOk(path)
             THEN LET r == ResetTiming(
                               [s EXCEPT !.total_duration =
                                             UnwrapOr(DecoderDuration(path), 0),
                                         !.sink =
                                             SinkPlay(SinkAppend(s.sink, path))],
                               t)
                  IN  [r EXCEPT !.out = Append(r.out, Started(path))]
             ELSE s
    ELSE IF s.sink.paused
    THEN [s EXCEPT !.sink = SinkPlay(s.sink),
                   !.accumulated_pause =
                       IF s.pause_start # None
                       THEN s.accumulated_pause + (t - Unwrap(s.pause_start))
                       ELSE s.accumulated_pause,
                   !.pause_start = None, !.is_playing = TRUE]
    ELSE s

\* mutant: Resume that replays the last file whether the sink is empty or not
ResumeCmd_ReplaysLoaded(s, t) ==
    IF s.last_played_path # None
    THEN LET path == Unwrap(s.last_played_path)
         IN  IF ReadOk(path) /\ DecodeOk(path)
             THEN ResetTiming(
                      [s EXCEPT !.total_duration =
                                    UnwrapOr(DecoderDuration(path), 0),
                                !.sink = SinkPlay(SinkAppend(s.sink, path))], t)
             ELSE s
    ELSE IF s.sink.paused
    THEN [s EXCEPT !.sink = SinkPlay(s.sink),
                   !.accumulated_pause =
                       IF s.pause_start # None
                       THEN s.accumulated_pause + (t - Unwrap(s.pause_start))
                       ELSE s.accumulated_pause,
                   !.pause_start = None, !.is_playing = TRUE]
    ELSE s

\* mutant: Resume that only ever continues a paused sink
ResumeCmd_NoReplay(s, t) ==
    IF s.sink.paused
    THEN [s EXCEPT !.sink = SinkPlay(s.sink),
                   !.accumulated_pause =
                       IF s.pause_start # None
                       THEN s.accumulated_pause + (t - Unwrap(s.pause_start))
                       ELSE s.accumulated_pause,
                   !.pause_start = None, !.is_playing = TRUE]
    ELSE s

ResumeCmd(s, t) ==
    IF SinkEmpty(s.sink) /\ s.last_played_path # None
    THEN LET path == Unwrap(s.last_played_path)
         IN  IF ReadOk(path) /\ DecodeOk(path)
             THEN ResetTiming(
                      [s EXCEPT !.total_duration =
                                    UnwrapOr(DecoderDuration(path), 0),
                                !.sink = SinkPlay(SinkAppend(s.sink, path))], t)
             ELSE s
    ELSE IF s.sink.paused
    THEN [s EXCEPT !.sink = SinkPlay(s.sink),
                   !.accumulated_pause =
                       IF s.pause_start # None
                       THEN s.accumulated_pause + (t - Unwrap(s.pause_start))
                       ELSE s.accumulated_pause,
                   !.pause_start = None, !.is_playing = TRUE]
    ELSE s

\* mutant: Stop that leaves has_started set
StopCmd_KeepsStarted(s) ==
    [s EXCEPT !.sink = SinkStop(s.sink), !.is_playing = FALSE,
              !.playback_start = None]

StopCmd(s) ==
    [s EXCEPT !.sink = SinkStop(s.sink), !.is_playing = FALSE,
              !.has_started = FALSE, !.playback_start = None]

\* mutant: SetVolume that forgets the pauses accumulated so far
SetVolumeCmd_ClearsPauses(s, v) ==
    [s EXCEPT !.sink = SinkSetVolume(s.sink, v), !.accumulated_pause = 0]

SetVolumeCmd(s, v) == [s EXCEPT !.sink = SinkSetVolume(s.sink, v)]

SeekTiming(s, pos, t) ==
    [s EXCEPT !.playback_start = Some(t), !.accumulated_pause = 0,
              !.seek_offset = pos,
              !.pause_start = IF ~s.is_playing THEN Some(t) ELSE s.pause_start]

\* mutant: a manual seek that leaves pause_start as it was
SeekFallback_KeepsPauseStart(s, pos, t) ==
    IF s.last_played_path # None
       /\ ReadOk(Unwrap(s.last_played_path))
       /\ DecodeOk(Unwrap(s.last_played_path))
    THEN LET k1 == SinkPlay(SinkAppend(SinkStop(s.sink),
                                       Unwrap(s.last_played_path)))
         IN  [s EXCEPT !.sink = IF ~s.is_playing THEN SinkPause(k1) ELSE k1,
                       !.playback_start = Some(t),
                       !.accumulated_pause = 0,
                       !.seek_offset = pos]
    ELSE s

SeekFallback(s, pos, t) ==
    IF s.last_played_path # None
       /\ ReadOk(Unwrap(s.last_played_path))
       /\ DecodeOk(Unwrap(s.last_played_path))
    THEN LET k1 == SinkPlay(SinkAppend(SinkStop(s.sink),
                                       Unwrap(s.last_played_path)))
             s1 == [s EXCEPT !.sink = k1,
                             !.playback_start = Some(t),
                             !.accumulated_pause = 0,
                             !.seek_offset = pos]
         IN  IF ~s.is_playing
             THEN [s1 EXCEPT !.pause_start = Some(t),
                             !.sink = SinkPause(k1)]
             ELSE s1
    ELSE s

\* the answers the device can give to Sink::try_seek (none is asked of it
\* by the other commands)
SeekAnswers(cmd) == IF cmd.kind = "Seek" THEN BOOLEAN ELSE {TRUE}

\* try_seek_ok is the device's answer to Sink::try_seek
SeekCmd(s, pos, try_seek_ok, t) ==
    IF ~try_seek_ok THEN SeekFallback(s, pos, t) ELSE SeekTiming(s, pos, t)

HandleCommand(s, cmd, try_seek_ok, t) ==
    LET r == CASE cmd.kind = "PlayFile"  -> PlayFileCmd(s, cmd.path, t)
               [] cmd.kind = "Pause"     -> PauseCmd(s, t)
               [] cmd.kind = "Resume"    -> ResumeCmd(s, t)
               [] cmd.kind = "Stop"      -> StopCmd(s)
               [] cmd.kind = "SetVolume" -> SetVolumeCmd(s, cmd.n)
               [] cmd.kind = "Seek"      -> SeekCmd(s, cmd.n, try_seek_ok, t)
    IN  [r EXCEPT !.force_status_update = TRUE]

----------------------------------------------------------------------------
(* Time reconstruction *)

AsSecs(d) == d \div SecTicks

CurrentPos(s, t) ==
    IF s.playback_start = None THEN 0
    ELSE LET raw_elapsed == t - Unwrap(s.playback_start)
             pause_duration ==
                 IF s.pause_start # None
                 THEN s.accumulated_pause + (t - Unwrap(s.pause_start))
                 ELSE s.accumulated_pause
         IN  IF raw_elapsed + s.seek_offset > pause_duration
             THEN (raw_elapsed + s.seek_offset) - pause_duration
             ELSE 0

ClampPos(s, pos) ==
    IF AsSecs(s.total_duration) > 0 /\ pos > s.total_duration
    THEN s.total_duration
    ELSE pos

(* End-of-track detection and status emission, the tail of every pass *)

\* mutant: end of track that leaves has_started set
FinishTrack_KeepsStarted(s) ==
    [s EXCEPT !.is_playing = FALSE, !.playback_start = None,
              !.out = Append(s.out, Finished)]

\* mutant: end of track that leaves is_playing set
FinishTrack_KeepsPlaying(s) ==
    [s EXCEPT !.has_started = FALSE, !.playback_start = None,
              !.out = Append(s.out, Finished)]

FinishTrack(s) ==
    [s EXCEPT !.has_started = FALSE, !.is_playing = FALSE,
              !.playback_start = None, !.out = Append(s.out, Finished)]

\* mutant: status emission that looks at the throttle timer alone
SendStatus_TimerOnly(s, current_pos, t) ==
    IF t - s.last_status_time >= ThrottleTicks
    THEN [s EXCEPT !.out = Append(s.out, Status(current_pos, s.total_duration,
                                                s.is_playing)),
                   !.last_status_time = t, !.force_status_update = FALSE]
    ELSE s

\* mutant: status emission that does not restart the throttle timer
SendStatus_NoTimerReset(s, current_pos, t) ==
    IF s.force_status_update \/ t - s.last_status_time >= ThrottleTicks
    THEN [s EXCEPT !.out = Append(s.out, Status(current_pos, s.total_duration,
                                                s.is_playing)),
                   !.force_status_update = FALSE]
    ELSE s

SendStatus(s, current_pos, t) ==
    IF s.force_status_update \/ t - s.last_status_time >= ThrottleTicks
    THEN [s EXCEPT !.out = Append(s.out, Status(current_pos, s.total_duration,
                                                s.is_playing)),
                   !.last_status_time = t, !.force_status_update = FALSE]
    ELSE s

\* mutant: a tail of the pass that sends the Snapshot after the Finished
Report_FinishedThenSnapshot(s, t) ==
    LET current_pos == ClampPos(s, CurrentPos(s, t))
    IN  IF s.has_started /\ SinkEmpty(s.sink)
        THEN SendStatus(FinishTrack(s), current_pos, t)
        ELSE SendStatus(s, current_pos, t)

Report(s, t) ==
    LET current_pos == ClampPos(s, CurrentPos(s, t))
    IN  IF s.has_started /\ SinkEmpty(s.sink)
        THEN FinishTrack(s)
        ELSE SendStatus(s, current_pos, t)

----------------------------------------------------------------------------
(* Observer of the run.  It records facts the properties speak of and      *)
(* decides nothing: no guard and no assignment of the worker reads it.     *)

HasFinished(o) == \E i \in 1..Len(o) : o[i].kind = "Finished"

HasStarted(o) == \E i \in 1..Len(o) : o[i].kind = "Started"

Snapshots(o) == {o[i] : i \in {j \in 1..Len(o) : o[j].kind = "Status"}}

HistInit ==
    [fin_unloaded |-> FALSE,  \* Finished was sent and no PlayFile or Resume
                              \* has loaded a track since
     after_fin |-> "no",      \* since the last Finished: "quiet" while no
                              \* PlayFile and no Resume was processed,
                              \* "resumed" once a Resume but no PlayFile was
     owed |-> FALSE,          \* the device drained by playback and no pass
                              \* has run since
     pauses |-> 0,            \* how many of the last commands were Pause (<= 2)
     resumes |-> 0,           \* how many of the last commands were Resume (<= 2)
     replay |-> 0,            \* 1: last command a PlayFile that loaded,
                              \* 2: then Stop, 3: then Resume
     pr_only |-> FALSE,       \* a PlayFile loaded a track, only Pause and
                              \* Resume were processed since, and the track
                              \* has not drained
     played |-> 0,            \* ticks the device has played while pr_only
     snap_at |-> None,        \* the instant of the latest Snapshot
     cmd_since |-> FALSE,     \* a command was processed since that Snapshot
     ended |-> "no"]          \* the last pass and a track played to its end:
                              \* "due" if, the command (if any) handled,
                              \* has_started was set and the device drained;
                              \* "stopped" if that held when the pass began
                              \* and the pass took a Stop

\* the command cmd, handled from state b into state m, loaded a track
LoadedBy(cmd, b, m) ==
    \/ cmd.kind = "PlayFile" /\ HasStarted(m.out)
    \/ cmd.kind = "Resume" /\ SinkEmpty(b.sink) /\ ~SinkEmpty(m.sink)

\* a pass that took cmd (NoCmd on a timeout) at instant t went from b through
\* the handler's result m to a; dt ticks passed while it waited
HistPass(h, cmd, b, m, a, dt, t) ==
    LET fin == HasFinished(a.out)
        loaded == LoadedBy(cmd, b, m)
    IN  [fin_unloaded |-> IF fin THEN TRUE
                          ELSE IF loaded THEN FALSE ELSE h.fin_unloaded,
         after_fin |-> IF fin THEN "quiet"
                       ELSE IF cmd.kind = "PlayFile" THEN "no"
                       ELSE IF cmd.kind = "Resume" /\ h.after_fin = "quiet"
                            THEN "resumed"
                       ELSE h.after_fin,
         owed |-> FALSE,
         pauses |-> IF cmd = NoCmd THEN h.pauses
                    ELSE IF cmd.kind # "Pause" THEN 0
                    ELSE IF h.pauses = 0 THEN 1 ELSE 2,
         resumes |-> IF cmd = NoCmd THEN h.resumes
                     ELSE IF cmd.kind # "Resume" THEN 0
                     ELSE IF h.resumes = 0 THEN 1 ELSE 2,
         replay |-> IF cmd = NoCmd THEN h.replay
                    ELSE IF cmd.kind = "PlayFile" /\ HasStarted(m.out) THEN 1
                    ELSE IF cmd.kind = "Stop" /\ h.replay = 1 THEN 2
                    ELSE IF cmd.kind = "Resume" /\ h.replay = 2 THEN 3
                    ELSE 0,
         pr_only |-> IF cmd.kind = "PlayFile" THEN HasStarted(m.out)
                     ELSE h.pr_only /\ cmd.kind \in {"None", "Pause", "Resume"}
                          /\ ~SinkEmpty(m.sink),
         played |-> IF cmd.kind = "PlayFile" THEN 0
                    ELSE IF h.pr_only /\ ~SinkEmpty(b.sink) /\ ~b.sink.paused
                         THEN h.played + dt
                    ELSE h.played,
         snap_at |-> IF Snapshots(a.out) # {} THEN Some(t)
                     ELSE h.snap_at,
         cmd_since |-> IF Snapshots(a.out) # {} THEN FALSE
                       ELSE h.cmd_since \/ cmd # NoCmd,
         ended |-> IF m.has_started /\ SinkEmpty(m.sink) THEN "due"
                   ELSE IF cmd.kind = "Stop" /\ b.has_started
                           /\ SinkEmpty(b.sink)
                        THEN "stopped"
                   ELSE "no"]

HistDrain(h) == [h EXCEPT !.owed = TRUE, !.pr_only = FALSE]

----------------------------------------------------------------------------
(* The playlists: one PlaylistsManager, shared by the app and the handlers *)
(* of the remote API behind one mutex.  A playlist is the sequence of the  *)
(* paths of its items (an item's name is the file name of its path).       *)

DefaultName == "Default List"

\* the names a user can type and a request can carry
ListNames == {DefaultName, "Other"}

\* the items of the playlist that is current when the program starts
Playlist == <<"a", "b">>

\* playlists.json as PlaylistsManager::load finds it: two playlists, the
\* first of them current
DataInit ==
    [current_name |-> DefaultName,
     lists |-> [n \in {DefaultName, "Other"} |->
                   IF n = DefaultName THEN Playlist ELSE << >>]]

\* HashMap::contains_key
ContainsKey(ls, n) == n \in DOMAIN ls

\* HashMap::insert
Insert(ls, n, v) ==
    [x \in (DOMAIN ls) \cup {n} |-> IF x = n THEN v ELSE ls[x]]

\* HashMap::remove
Remove(ls, n) == [x \in (DOMAIN ls) \ {n} |-> ls[x]]

\* lists.entry(n).or_default()
EntryOrDefault(ls, n) == IF ContainsKey(ls, n) THEN ls ELSE Insert(ls, n, << >>)

\* data.lists.get(&data.current_name)
CurrentList(d) ==
    IF ContainsKey(d.lists, d.current_name)
    THEN Some(d.lists[d.current_name]) ELSE None

\* Vec::remove(index), index counted from 0
RemoveAt(list, index) ==
    SubSeq(list, 1, index) \o SubSeq(list, index + 2, Len(list))

\* list.iter().any(|item| item.path == path)
InList(list, path) == \E i \in 1..Len(list) : list[i] = path

\* Path::exists
Exists(path) == path \in Paths

\* what lists.keys().next() can yield: the order of a HashMap is not
\* determined by the program
FirstKeys(ls) == IF DOMAIN ls = {} THEN {None} ELSE {Some(n) : n \in DOMAIN ls}

(* The two mutexes (Arc<Mutex<PlaylistsManager>>, Arc<Mutex<LyricsState>>) *)
(* and the threads that take them: the app's update, the callback of the   *)
(* lyrics viewport and the tasks that run the handlers of the API.  A      *)
(* thread is idle, or stands at the lock() of a section of the code, or    *)
(* holds the guard of that section, or is inside the file dialog.          *)

Handlers == {"h1"}

Actors == {"ui", "viewport"} \cup Handlers

\* the sections that lock LyricsState; every other section locks the
\* PlaylistsManager
LyricsSites == {"lyrics", "viewport"}

MutexOf(site) == IF site \in LyricsSites THEN "lyrics" ELSE "data"

At(site, at) == [site |-> site, at |-> at]

Idle == At("", "idle")

MutexInit == [data |-> None, lyrics |-> None]

PcInit == [a \in Actors |-> Idle]

\* the guard of mutex which is dropped
Release(m, which) == [m EXCEPT ![which] = None]

\* mutant: the panel keeps its guard over the file dialog
PanelDrop_Keeps(m) == m

\* drop(data) at the end of the playlist panel, before the file dialog
PanelDrop(m) == Release(m, "data")

(* The handlers of the remote API.  Each gives the PlaylistsManager it     *)
(* leaves and the commands it sends on its clone of audio_tx.              *)

Done(d, cmds) == [data |-> d, sent |-> cmds]

api_play(d, playlist, path, index) ==
    LET target_list_name == UnwrapOr(playlist, d.current_name)
        ls == EntryOrDefault(d.lists, target_list_name)
        list == ls[target_list_name]
    IN  IF index # None
        THEN Done([d EXCEPT !.lists = ls],
                  IF Unwrap(index) < Len(list)
                  THEN <<PlayFile(list[Unwrap(index) + 1])>> ELSE << >>)
        ELSE IF path # None /\ Exists(Unwrap(path))
             THEN Done([d EXCEPT !.lists =
                           IF InList(list, Unwrap(path)) THEN ls
                           ELSE Insert(ls, target_list_name,
                                       <<Unwrap(path)>> \o list)],
                       <<PlayFile(Unwrap(path))>>)
             ELSE Done([d EXCEPT !.lists = ls], << >>)

api_remove_from_playlist(d, playlist, index) ==
    LET target_list_name == UnwrapOr(playlist, d.current_name)
    IN  IF ContainsKey(d.lists, target_list_name)
           /\ index < Len(d.lists[target_list_name])
        THEN Done([d EXCEPT !.lists[target_list_name] = RemoveAt(@, index)],
                  << >>)
        ELSE Done(d, << >>)

api_rename_playlist(d, old_name, new_name) ==
    IF ~ContainsKey(d.lists, old_name) \/ ContainsKey(d.lists, new_name)
    THEN Done(d, << >>)
    ELSE Done([current_name |-> IF d.current_name = old_name THEN new_name
                                ELSE d.current_name,
               lists |-> Insert(Remove(d.lists, old_name), new_name,
                                d.lists[old_name])],
              << >>)

\* first is what keys().next() yields once name is removed
api_delete_playlist(d, name, first) ==
    IF Cardinality(DOMAIN d.lists) <= 1 THEN Done(d, << >>)
    ELSE IF ContainsKey(d.lists, name)
         THEN IF d.current_name = name
              THEN IF first # None
                   THEN Done([current_name |-> Unwrap(first),
                              lists |-> Remove(d.lists, name)], << >>)
                   ELSE Done([current_name |-> DefaultName,
                              lists |-> Insert(Remove(d.lists, name),
                                               DefaultName, << >>)], << >>)
              ELSE Done([d EXCEPT !.lists = Remove(d.lists, name)], << >>)
         ELSE Done(d, << >>)

api_switch_playlist(d, name) ==
    IF ContainsKey(d.lists, name)
    THEN Done([d EXCEPT !.current_name = name], << >>)
    ELSE Done(d, << >>)

api_get_playlist(d) == Done(d, << >>)

(* The playlist panel and the dialogs of the app (update).  g holds the    *)
(* app's fields of the dialogs.                                             *)

DialogsInit ==
    [show_rename_dialog |-> FALSE, playlist_to_delete |-> None,
     show_delete_playlist_dialog |-> FALSE]

Shown(d, g) == [data |-> d, dialogs |-> g]

\* the selector: ui.selectable_value(&mut data.current_name, name, ..)
SelectPlaylist(d, g, name) == Shown([d EXCEPT !.current_name = name], g)

\* the rename button
RenameClick(d, g) == Shown(d, [g EXCEPT !.show_rename_dialog = TRUE])

\* the delete button
DeleteClick(d, g) ==
    IF Cardinality(DOMAIN d.lists) > 1
    THEN Shown(d, [g EXCEPT !.playlist_to_delete = Some(d.current_name),
                            !.show_delete_playlist_dialog = TRUE])
    ELSE Shown(d, g)

\* the New Playlist button, new_playlist_name being name
NewPlaylist(d, g, name) ==
    IF name # ""
    THEN Shown([current_name |-> name, lists |-> EntryOrDefault(d.lists, name)],
               g)
    ELSE Shown(d, g)

\* the Add Files button, the dialog having returned path: a file whose name
\* the list holds already is kept for the duplicate dialog
AddFile(d, g, path) ==
    LET ls == EntryOrDefault(d.lists, d.current_name)
        list == ls[d.current_name]
    IN  IF InList(list, path) THEN Shown([d EXCEPT !.lists = ls], g)
        ELSE Shown([d EXCEPT !.lists = Insert(ls, d.current_name,
                                              <<path>> \o list)], g)

\* the Clear List button
ClearList(d, g) ==
    IF ContainsKey(d.lists, d.current_name)
    THEN Shown([d EXCEPT !.lists[d.current_name] = << >>], g)
    ELSE Shown(d, g)

\* Remove from list, in the context menu of item index
RemoveItem(d, g, index) ==
    IF ContainsKey(d.lists, d.current_name)
       /\ index < Len(d.lists[d.current_name])
    THEN Shown([d EXCEPT !.lists[d.current_name] = RemoveAt(@, index)], g)
    ELSE Shown(d, g)

\* OK in the rename dialog, rename_playlist_name being name
RenameOk(d, g, name) ==
    LET old_name == d.current_name
        g1 == [g EXCEPT !.show_rename_dialog = FALSE]
    IN  IF name # "" /\ ~ContainsKey(d.lists, name)
           /\ ContainsKey(d.lists, old_name)
        THEN Shown([current_name |-> name,
                    lists |-> Insert(Remove(d.lists, old_name), name,
                                     d.lists[old_name])], g1)
        ELSE Shown(d, g1)

\* Cancel in the rename dialog, or its close button
RenameCancel(d, g) == Shown(d, [g EXCEPT !.show_rename_dialog = FALSE])

\* mutant: a confirmed delete that does not put a playlist back when it has
\* removed the last one
DeleteOk_NoDefault(d, g, first) ==
    LET g1 == [g EXCEPT !.show_delete_playlist_dialog = FALSE,
                        !.playlist_to_delete = None]
    IN  IF g.playlist_to_delete # None
        THEN LET name == Unwrap(g.playlist_to_delete)
                 ls == Remove(d.lists, name)
             IN  IF d.current_name = name /\ first # None
                 THEN Shown([current_name |-> Unwrap(first), lists |-> ls], g1)
                 ELSE Shown([d EXCEPT !.lists = ls], g1)
        ELSE Shown(d, g1)

\* OK in the delete dialog; first is what keys().next() yields once the
\* playlist is removed
DeleteOk(d, g, first) ==
    LET g1 == [g EXCEPT !.show_delete_playlist_dialog = FALSE,
                        !.playlist_to_delete = None]
    IN  IF g.playlist_to_delete # None
        THEN LET name == Unwrap(g.playlist_to_delete)
                 ls == Remove(d.lists, name)
             IN  IF d.current_name = name
                 THEN IF first # None
                      THEN Shown([current_name |-> Unwrap(first),
                                  lists |-> ls], g1)
                      ELSE Shown([current_name |-> DefaultName,
                                  lists |-> Insert(ls, DefaultName, << >>)],
                                 g1)
                 ELSE Shown([d EXCEPT !.lists = ls], g1)
        ELSE Shown(d, g1)

\* Cancel in the delete dialog
DeleteCancel(d, g) ==
    Shown(d, [g EXCEPT !.show_delete_playlist_dialog = FALSE,
                       !.playlist_to_delete = None])

----------------------------------------------------------------------------
(* The consumer: MusicPlayerApp.  Its fields that follow the playback, as  *)
(* one record; sent holds the commands the frame has put on audio_tx.      *)

PlaybackModes == {"Order", "ListLoop", "SingleLoop", "Single"}

AppInit ==
    [playback_mode |-> "Order", current_position |-> 0, total_duration |-> 0,
     is_playing |-> FALSE, is_seeking |-> FALSE, seek_target |-> None,
     last_sync_time |-> None, current_playing_file |-> None, sent |-> << >>]

play_file(a, path, t) ==
    [a EXCEPT !.sent = Append(a.sent, PlayFile(path)),
              !.current_playing_file = Some(path),
              !.is_playing = TRUE,
              !.last_sync_time = Some(t),
              !.current_position = 0]

\* list.iter().position(|p| &p.path == curr), counted from 0
PositionOf(list, curr) ==
    IF \E i \in 1..Len(list) : list[i] = curr
    THEN Some((CHOOSE i \in 1..Len(list) :
                  list[i] = curr /\ \A j \in 1..(i - 1) : list[j] # curr) - 1)
    ELSE None

\* the advance over the playlist list
Advance(a, list, t) ==
    IF Len(list) = 0 THEN a
    ELSE LET current_idx ==
                 IF a.current_playing_file # None
                 THEN PositionOf(list, Unwrap(a.current_playing_file))
                 ELSE None
             next_idx ==
                 CASE a.playback_mode = "Single" -> None
                   [] a.playback_mode = "SingleLoop" -> current_idx
                   [] a.playback_mode = "Order" ->
                        IF current_idx # None
                        THEN IF Unwrap(current_idx) + 1 < Len(list)
                             THEN Some(Unwrap(current_idx) + 1)
                             ELSE None
                        ELSE Some(0)
                   [] a.playback_mode = "ListLoop" ->
                        IF current_idx # None
                        THEN Some((Unwrap(current_idx) + 1) % Len(list))
                        ELSE Some(0)
         IN  IF next_idx # None
             THEN play_file(a, list[Unwrap(next_idx) + 1], t)
             ELSE [a EXCEPT !.is_playing = FALSE]

play_next(a, t) ==
    IF CurrentList(data) # None THEN Advance(a, Unwrap(CurrentList(data)), t)
    ELSE a

(* update: the status events waiting on audio_rx *)

\* mutant: a Snapshot within the tolerance is adopted and the seek target
\* stays pending
OnStatus_KeepsTarget(a, st, t) ==
    LET a1 == IF ~a.is_seeking
              THEN IF a.seek_target # None
                   THEN LET target == Unwrap(a.seek_target)
                            diff == IF st.position > target
                                    THEN st.position - target
                                    ELSE target - st.position
                        IN  IF diff < SecTicks
                            THEN [a EXCEPT !.current_position = st.position,
                                           !.last_sync_time = Some(t)]
                            ELSE a
                   ELSE [a EXCEPT !.current_position = st.position,
                                  !.last_sync_time = Some(t)]
              ELSE a
    IN  [a1 EXCEPT !.total_duration = st.duration,
                   !.is_playing = st.is_playing]

\* mutant: a Snapshot exactly one second from the seek target is adopted
OnStatus_TolerantAtOneSecond(a, st, t) ==
    LET a1 == IF ~a.is_seeking
              THEN IF a.seek_target # None
                   THEN LET target == Unwrap(a.seek_target)
                            diff == IF st.position > target
                                    THEN st.position - target
                                    ELSE target - st.position
                        IN  IF diff <= SecTicks
                            THEN [a EXCEPT !.seek_target = None,
                                           !.current_position = st.position,
                                           !.last_sync_time = Some(t)]
                            ELSE a
                   ELSE [a EXCEPT !.current_position = st.position,
                                  !.last_sync_time = Some(t)]
              ELSE a
    IN  [a1 EXCEPT !.total_duration = st.duration,
                   !.is_playing = st.is_playing]

OnStatus(a, st, t) ==
    LET a1 == IF ~a.is_seeking
              THEN IF a.seek_target # None
                   THEN LET target == Unwrap(a.seek_target)
                            diff == IF st.position > target
                                    THEN st.position - target
                                    ELSE target - st.position
                        IN  IF diff < SecTicks
                            THEN [a EXCEPT !.seek_target = None,
                                           !.current_position = st.position,
                                           !.last_sync_time = Some(t)]
                            ELSE a
                   ELSE [a EXCEPT !.current_position = st.position,
                                  !.last_sync_time = Some(t)]
              ELSE a
    IN  [a1 EXCEPT !.total_duration = st.duration,
                   !.is_playing = st.is_playing]

OnStarted(a, path, t) ==
    [a EXCEPT !.current_playing_file = Some(path),
              !.is_playing = TRUE,
              !.last_sync_time = Some(t),
              !.current_position = 0]

OnEvent(a, st, t) ==
    CASE st.kind = "Status"   -> OnStatus(a, st, t)
      [] st.kind = "Finished" -> play_next(a, t)
      [] st.kind = "Started"  -> OnStarted(a, st.path, t)

\* while let Ok(status) = self.audio_rx.try_recv()
RECURSIVE DrainStatus(_, _, _)
DrainStatus(a, q, t) ==
    IF q = << >> THEN a
    ELSE DrainStatus(OnEvent(a, Head(q), t), Tail(q), t)

(* update: the position the progress bar shows *)

DisplayPos(a, t) ==
    IF a.is_playing /\ ~a.is_seeking /\ a.seek_target = None
       /\ a.last_sync_time # None
    THEN LET display_pos == a.current_position + (t - Unwrap(a.last_sync_time))
         IN  IF display_pos > a.total_duration THEN a.total_duration
             ELSE display_pos
    ELSE a.current_position

(* update: what the user does in the frame *)

Input(k, p, c) == [kind |-> k, path |-> p, changed |-> c]

NoInput == Input("None", "", None)

\* the slider's range is 0 ..= max(total_duration, 0.1 s)
SliderMinMax == 5

SliderValues == {100}

UiInputs ==
    {NoInput, Input("PlayPause", "", None), Input("StopClick", "", None)}
    \cup {Input("SelectMode", m, None) : m \in PlaybackModes}
    \cup {Input("PlayItem", Playlist[i], None) : i \in 1..Len(Playlist)}
    \cup {Input(k, "", c) : k \in {"DragStart", "DragStop"},
                            c \in {None} \cup {Some(v) : v \in SliderValues}}
    \cup {Input(k, "", Some(v)) : k \in {"DragMove", "SliderSet"},
                                  v \in SliderValues}

\* The input is one the pointer can make in state a: a drag of the slider
\* moves and stops when one is under way (is_seeking, set when it starts and
\* cleared when it stops); while it is, the pointer does nothing else; and
\* the value lies in the slider's range.
InputOk(a, input) ==
    /\ input.kind \in {"DragMove", "DragStop"} => a.is_seeking
    /\ input.kind \notin {"None", "DragMove", "DragStop"} => ~a.is_seeking
    /\ input.changed # None =>
         Unwrap(input.changed) <=
             (IF a.total_duration > SliderMinMax THEN a.total_duration
              ELSE SliderMinMax)

\* the play/pause button, the stop button and the mode selector
Buttons(a, input, t) ==
    CASE input.kind = "PlayPause" ->
           IF a.is_playing
           THEN [a EXCEPT !.sent = Append(a.sent, Pause),
                          !.is_playing = FALSE,
                          !.last_sync_time = None]
           ELSE IF a.current_playing_file # None
                THEN [a EXCEPT !.sent = Append(a.sent, Resume),
                               !.is_playing = TRUE,
                               !.last_sync_time = Some(t)]
                ELSE play_next(a, t)
      [] input.kind = "StopClick" ->
           [a EXCEPT !.sent = Append(a.sent, Stop),
                     !.current_position = 0,
                     !.is_playing = FALSE,
                     !.last_sync_time = None]
      [] input.kind = "SelectMode" -> [a EXCEPT !.playback_mode = input.path]
      [] OTHER -> a

\* the progress slider, drawn at display_pos
Slider(a, input, display_pos) ==
    LET value == IF input.changed # None THEN Unwrap(input.changed)
                 ELSE display_pos
        a1 == IF input.kind = "DragStart"
              THEN [a EXCEPT !.is_seeking = TRUE] ELSE a
        a2 == IF input.changed # None
              THEN [a1 EXCEPT !.current_position = value,
                              !.last_sync_time = None]
              ELSE a1
    IN  IF input.kind = "DragStop"
        THEN [a2 EXCEPT !.sent = Append(a2.sent, Seek(value)),
                        !.seek_target = Some(value),
                        !.is_seeking = FALSE]
        ELSE a2

\* a click on an item of the playlist
PlaylistClick(a, input, t) ==
    IF input.kind = "PlayItem" THEN play_file(a, input.path, t) ELSE a

RenderInit ==
    [display_pos |-> 0, total_duration |-> 0, is_seeking |-> FALSE,
     seek_target |-> None, target_before |-> None]

\* what the progress bar shows in state a, the position being display_pos,
\* and the seek target that was pending when the frame began
Rendered(a, display_pos, before) ==
    [display_pos |-> display_pos, total_duration |-> a.total_duration,
     is_seeking |-> a.is_seeking, seek_target |-> a.seek_target,
     target_before |-> before]

(* The two channels and the threads at their ends *)

ChanInit == [ui |-> TRUE, api |-> TRUE, running |-> TRUE]

\* the live Senders of the command channel
CmdSenders(c) ==
    (IF c.ui THEN {"ui"} ELSE {}) \cup (IF c.api THEN {"api"} ELSE {})

\* the Receiver of the status channel is a field of the app
StatusRxAlive(c) == c.ui

\* the Sender of the port channel is a field of the app
PortTxAlive(c) == c.ui

\* mutant: a receive that takes the newest command waiting
RecvCmd_Newest(q) ==
    [head |-> q[Len(q)], rest |-> SubSeq(q, 1, Len(q) - 1)]

\* cmd_rx.recv_timeout on a channel that holds q: the oldest message
RecvCmd(q) == [head |-> Head(q), rest |-> Tail(q)]

\* mutant: a loop that takes the disconnection for a timeout
RecvDisconnected_Never(q, c) == FALSE

\* mutant: a receive that reports the disconnection while commands wait
RecvDisconnected_DropsQueue(q, c) == CmdSenders(c) = {}

\* recv_timeout returns Err(Disconnected): nothing waits and no Sender lives
RecvDisconnected(q, c) == q = << >> /\ CmdSenders(c) = {}

LogInit ==
    [enq |-> 0,           \* commands put on the command channel
     deq |-> 0,           \* commands the worker has taken
     deq_ok |-> TRUE,     \* each was the oldest one not yet taken
     emitted |-> 0,       \* status events the worker has sent
     received |-> 0,      \* status events the consumer has taken
     recv_ok |-> TRUE,    \* each was the oldest one not yet taken
     late |-> 0]          \* commands the worker took when no Sender lived

\* the messages msgs as they lie on a channel, numbered from n + 1 in the
\* order in which they were sent (the numbers are the observer's)
Tagged(msgs, n) == [i \in 1..Len(msgs) |-> [msg |-> msgs[i], id |-> n + i]]

Untag(q) == [i \in 1..Len(q) |-> q[i].msg]

\* the messages of q carry the numbers n + 1, n + 2, ...
InOrder(q, n) == \A i \in 1..Len(q) : q[i].id = n + i

----------------------------------------------------------------------------
Init ==
    /\ now = 0
    /\ sink = NewSink
    /\ last_played_path = None
    /\ total_duration = 0
    /\ playback_start = None
    /\ pause_start = None
    /\ accumulated_pause = 0
    /\ seek_offset = 0
    /\ is_playing = FALSE
    /\ has_started = FALSE
    /\ last_status_time = 0
    /\ force_status_update = FALSE
    /\ out = << >>
    /\ last_step = "init"
    /\ last_cmd = NoCmd
    /\ hist = HistInit
    /\ app = AppInit
    /\ status_q = << >>
    /\ render = RenderInit
    /\ last_input = NoInput
    /\ cmd_q = << >>
    /\ chan = ChanInit
    /\ log = LogInit
    /\ data = DataInit
    /\ dialogs = DialogsInit
    /\ mutex = MutexInit
    /\ pc = PcInit

Commit(r) ==
    /\ last_played_path' = r.last_played_path
    /\ total_duration' = r.total_duration
    /\ playback_start' = r.playback_start
    /\ pause_start' = r.pause_start
    /\ accumulated_pause' = r.accumulated_pause
    /\ seek_offset' = r.seek_offset
    /\ is_playing' = r.is_playing
    /\ has_started' = r.has_started
    /\ last_status_time' = r.last_status_time
    /\ force_status_update' = r.force_status_update
    /\ sink' = r.sink
    /\ out' = r.out

\* One pass of the loop in which recv_timeout returns Ok(cmd), cmd one of
\* cmds.  The sender (the UI or the remote API) puts cmd on the channel and
\* the worker takes it in the same step: what the worker does depends on the
\* commands and on the instants at which it takes them, not on how long they
\* were queued.
CommandPassOf(cmds) ==
    /\ \E cmd \in cmds :
       \E try_seek_ok \in SeekAnswers(cmd) :
       \E m \in {HandleCommand(Cur, cmd, try_seek_ok, now)} :
       \E r \in {Report(m, now)} :
         /\ Commit(r)
         /\ hist' = HistPass(hist, cmd, Cur, m, r, 0, now)
         /\ last_cmd' = cmd
    /\ last_step' = "cmd"
    /\ UNCHANGED playlists
    /\ UNCHANGED <<now, consumer, channel>>

CommandPass == CommandPassOf(Commands)

\* one pass in which recv_timeout returns Err(Timeout) after 20 ms, the
\* clock not yet at limit
TimeoutPassUntil(limit) ==
    /\ now < limit
    /\ now' = now + PollTicks
    /\ \E r \in {Report(Cur, now + PollTicks)} :
         /\ Commit(r)
         /\ hist' = HistPass(hist, NoCmd, Cur, Cur, r, PollTicks,
                             now + PollTicks)
    /\ last_step' = "timeout"
    /\ UNCHANGED playlists
    /\ UNCHANGED <<last_cmd, consumer, channel>>

TimeoutPass == TimeoutPassUntil(MaxTime)

\* the device plays the queued source to its end
DeviceDrain ==
    /\ ~SinkEmpty(sink)
    /\ ~sink.paused
    /\ sink' = SinkStop(sink)
    /\ hist' = HistDrain(hist)
    /\ last_step' = "drain"
    /\ UNCHANGED playlists
    /\ UNCHANGED <<now, worker, out, last_cmd, consumer, channel>>

Next ==
    \/ CommandPass
    \/ TimeoutPass
    \/ DeviceDrain

Spec == Init /\ [][Next]_vars

\* The worker over a horizon long enough for the throttle timer to run out
\* twice, with the commands that start, pause and resume a track.
ThrottleCommands == {PlayFile("a"), Pause, Resume}

ThrottleCommandPass == CommandPassOf(ThrottleCommands)

ThrottleTimeoutPass == TimeoutPassUntil(MaxThrottleTime)

NextThrottle ==
    \/ ThrottleCommandPass
    \/ ThrottleTimeoutPass
    \/ DeviceDrain

SpecThrottle == Init /\ [][NextThrottle]_vars

----------------------------------------------------------------------------
(* The consumer on its own: the status events it receives are those the    *)
(* worker can send, in any order and at any time.                          *)

\* the Snapshot of a worker that has loaded nothing
IdleStatus == Status(0, 0, FALSE)

\* Snapshots of a track of 120 ticks, playing and paused, and of a paused
\* track of unknown length (duration 0); the idle Snapshot and the two
\* other events
AppStatuses ==
    {Status(50, 120, TRUE), Status(60, 120, TRUE), Status(60, 120, FALSE),
     Status(50, 0, FALSE), IdleStatus, Finished, Started("b")}

\* The events a frame can find waiting on audio_rx in state a.  The worker
\* reports a track only after the Started of a PlayFile: until the consumer
\* has a current file (it has sent a PlayFile or received a Started), what
\* waits is the idle Snapshot or a Started.
Batches(a) ==
    LET events == IF a.current_playing_file = None
                  THEN {st \in AppStatuses :
                           st = IdleStatus \/ st.kind = "Started"}
                  ELSE AppStatuses
    IN  UNION {[1..n -> events] : n \in 0..MaxBatch}

\* what the user can do in a frame, the playback mode staying as it is
FrameInputs == {input \in UiInputs : input.kind # "SelectMode"}

\* one call of update at the instant now: it finds the events q waiting and
\* the user does input
Frame(q, input) ==
    \E a1 \in {Buttons(DrainStatus([app EXCEPT !.sent = << >>], q, now),
                        input, now)} :
    \E display_pos \in {DisplayPos(a1, now)} :
       /\ InputOk(a1, input)
       /\ app' = PlaylistClick(Slider(a1, input, display_pos), input, now)
       /\ render' = Rendered(a1, display_pos, app.seek_target)
       /\ last_input' = input
       /\ last_step' = "frame"

AppFrame ==
    /\ \E q \in Batches(app) : \E input \in FrameInputs : Frame(q, input)
    /\ UNCHANGED playlists
    /\ UNCHANGED <<now, sink, worker, out, last_cmd, hist, status_q, channel>>

\* 20 ms pass between two frames
AppTick ==
    /\ now < MaxAppTime
    /\ now' = now + PollTicks
    /\ last_step' = "tick"
    /\ UNCHANGED playlists
    /\ UNCHANGED <<sink, worker, out, last_cmd, hist, consumer, channel>>

NextConsumer ==
    \/ AppFrame
    \/ AppTick

SpecConsumer == Init /\ [][NextConsumer]_vars

----------------------------------------------------------------------------
(* The whole program: the worker, the app and the remote API on the two    *)
(* channels, from start_audio_thread to the threads' ends.                 *)

MaxSent == 2

MaxChanTime == 1

\* the paths a request to /play can name
ApiPaths == {"b"}

\* the events out as the worker's sends leave them on the status channel q:
\* a send to a dropped Receiver fails and the worker ignores it
SendAll(q, events, c, n) ==
    IF StatusRxAlive(c) THEN q \o Tagged(events, n) ELSE q

\* one pass in which recv_timeout returns the oldest command waiting
ChanCommandPass ==
    /\ chan.running
    /\ cmd_q # << >>
    /\ \E got \in {RecvCmd(cmd_q)} :
       \E try_seek_ok \in SeekAnswers(got.head.msg) :
       \E m \in {HandleCommand(Cur, got.head.msg, try_seek_ok, now)} :
       \E r \in {Report(m, now)} :
         /\ Commit(r)
         /\ hist' = HistPass(hist, got.head.msg, Cur, m, r, 0, now)
         /\ last_cmd' = got.head.msg
         /\ cmd_q' = got.rest
         /\ status_q' = SendAll(status_q, r.out, chan, log.emitted)
         /\ log' = [log EXCEPT !.deq = @ + 1,
                               !.deq_ok = @ /\ got.head.id = log.deq + 1,
                               !.emitted = @ + Len(r.out),
                               !.late = IF CmdSenders(chan) = {}
                                        THEN @ + 1 ELSE @]
    /\ last_step' = "cmd"
    /\ UNCHANGED playlists
    /\ UNCHANGED <<now, app, render, last_input, chan>>

\* one pass in which recv_timeout returns Err(Timeout): for 20 ms nothing
\* waited and some Sender lived
ChanTimeoutPass ==
    /\ chan.running
    /\ cmd_q = << >>
    /\ CmdSenders(chan) # {}
    /\ now < MaxChanTime
    /\ now' = now + PollTicks
    /\ \E r \in {Report(Cur, now + PollTicks)} :
         /\ Commit(r)
         /\ hist' = HistPass(hist, NoCmd, Cur, Cur, r, PollTicks,
                             now + PollTicks)
         /\ status_q' = SendAll(status_q, r.out, chan, log.emitted)
         /\ log' = [log EXCEPT !.emitted = @ + Len(r.out)]
    /\ last_step' = "timeout"
    /\ UNCHANGED playlists
    /\ UNCHANGED <<last_cmd, app, render, last_input, cmd_q, chan>>

\* recv_timeout returns Err(Disconnected): the loop breaks
ChanDisconnected ==
    /\ chan.running
    /\ RecvDisconnected(cmd_q, chan)
    /\ chan' = [chan EXCEPT !.running = FALSE]
    /\ last_step' = "break"
    /\ UNCHANGED playlists
    /\ UNCHANGED <<now, sink, worker, out, last_cmd, hist, consumer, cmd_q,
                   log>>

\* what the user does in the frames of the whole program: the buttons and
\* the clicks on the playlist
ChanInputs ==
    {input \in FrameInputs :
        input.kind \in {"None", "PlayPause", "StopClick", "PlayItem"}}

\* one call of update: it takes every status event waiting and sends the
\* commands of the frame
ChanFrame ==
    /\ chan.ui
    /\ \E input \in ChanInputs : Frame(Untag(status_q), input)
    /\ log.enq + Len(app'.sent) <= MaxSent
    /\ cmd_q' = cmd_q \o Tagged(app'.sent, log.enq)
    /\ status_q' = << >>
    /\ log' = [log EXCEPT !.enq = @ + Len(app'.sent),
                          !.received = @ + Len(status_q),
                          !.recv_ok = @ /\ InOrder(status_q, log.received)]
    /\ UNCHANGED playlists
    /\ UNCHANGED <<now, sink, worker, out, last_cmd, hist, chan>>

\* api_play: a request to /play sends PlayFile on the clone of audio_tx
ApiPlay ==
    /\ chan.api
    /\ log.enq < MaxSent
    /\ \E p \in ApiPaths : cmd_q' = cmd_q \o Tagged(<<PlayFile(p)>>, log.enq)
    /\ log' = [log EXCEPT !.enq = @ + 1]
    /\ last_step' = "api"
    /\ UNCHANGED playlists
    /\ UNCHANGED <<now, sink, worker, out, last_cmd, hist, consumer, chan>>

\* run_native returns: the app is dropped and with it audio_tx, audio_rx
\* (and the events waiting on it) and port_tx
AppDrop ==
    /\ chan.ui
    /\ chan' = [chan EXCEPT !.ui = FALSE]
    /\ status_q' = << >>
    /\ last_step' = "drop"
    /\ UNCHANGED playlists
    /\ UNCHANGED <<now, sink, worker, out, last_cmd, hist, app, render,
                   last_input, cmd_q, log>>

\* the server thread learns that the port channel is closed, leaves its
\* loop and drops app_state
ApiPortClosed ==
    /\ chan.api
    /\ ~PortTxAlive(chan)
    /\ chan' = [chan EXCEPT !.api = FALSE]
    /\ last_step' = "exit"
    /\ UNCHANGED playlists
    /\ UNCHANGED <<now, sink, worker, out, last_cmd, hist, consumer, cmd_q,
                   log>>

\* the device plays the queued source to its end while the worker runs
ChanDeviceDrain == chan.running /\ DeviceDrain

WorkerPass ==
    \/ ChanCommandPass
    \/ ChanTimeoutPass
    \/ ChanDisconnected

NextChannel ==
    \/ WorkerPass
    \/ ChanDeviceDrain
    \/ ChanFrame
    \/ ApiPlay
    \/ AppDrop
    \/ ApiPortClosed

SpecChannel == Init /\ [][NextChannel]_vars

\* The threads are scheduled: the worker's loop goes on while it can, and
\* the server thread wakes when the port channel is closed.
SpecChannelFair ==
    SpecChannel /\ WF_vars(WorkerPass) /\ WF_vars(ApiPortClosed)

----------------------------------------------------------------------------
(* Properties *)

Abs(x) == IF x < 0 THEN -x ELSE x

NumFinished(o) == Cardinality({i \in 1..Len(o) : o[i].kind = "Finished"})

\* C1: every pass that takes a command sends at least one status event
\* before the worker waits again, however recently the last Snapshot went out.
C1_CommandForcesUpdate == last_step = "cmd" => Len(out) >= 1

\* a Pause processed less than 100 ms after the thread started (so the
\* throttle timer has never run out) and answered with a Snapshot
C1_Witness ==
    /\ last_step = "cmd" /\ last_cmd = Pause
    /\ 0 < now /\ now < ThrottleTicks
    /\ Snapshots(out) # {}

\* C2: Finished is sent once per drained track: a timeout pass that finds
\* has_started set and the sink drained sends exactly one Finished, and no
\* pass sends Finished while no track was loaded (by PlayFile or by a Resume
\* replay) since the last Finished.
C2_FinishedOnce ==
    [][last_step' \in {"cmd", "timeout"} =>
          /\ NumFinished(out') <= 1
          /\ (hist.fin_unloaded => ~HasFinished(out'))
          /\ (last_step' = "timeout" /\ has_started /\ SinkEmpty(sink)
                 => NumFinished(out') = 1)]_vars

\* a timeout pass after a Finished, the sink still drained, that sent no
\* second Finished
C2_Witness ==
    /\ hist.fin_unloaded /\ last_step = "timeout"
    /\ SinkEmpty(sink) /\ ~HasFinished(out)
    /\ last_played_path # None

\* C3 (as claimed): after Finished no Snapshot with is_playing = true is sent
\* until the next PlayFile is processed, whatever other commands come between.
C3_NoPlayingUntilPlayFile ==
    hist.after_fin # "no" => \A st \in Snapshots(out) : ~st.is_playing

\* C3 (amended): after Finished no Snapshot with is_playing = true is sent
\* until the next PlayFile or Resume is processed.
C3_NoPlayingUntilPlayFileOrResume ==
    hist.after_fin = "quiet" => \A st \in Snapshots(out) : ~st.is_playing

\* a Seek answered with a Snapshot after a Finished, nothing played since
C3_Witness ==
    /\ hist.after_fin = "quiet" /\ last_step = "cmd"
    /\ last_cmd.kind = "Seek" /\ Snapshots(out) # {}

\* C4: when the device has played its audio to the end and no command
\* arrives, the next pass of the worker sends Finished.
C4_EndOfTrackReported ==
    [][(last_step' = "timeout" /\ hist.owed) => HasFinished(out')]_vars

\* C5: a Pause processed right after a Pause leaves the timing state and the
\* device as the first one left them; pause_start is not overwritten.
C5_IdempotentPause ==
    [][(last_step' = "cmd" /\ last_cmd' = Pause /\ hist.pauses >= 1) =>
          UNCHANGED <<playback_start, pause_start, accumulated_pause,
                      seek_offset, is_playing, has_started, sink>>]_vars

\* a second Pause processed later than the first, on a loaded track
C5_Witness ==
    /\ hist.pauses = 2 /\ last_step = "cmd"
    /\ has_started /\ ~SinkEmpty(sink)
    /\ pause_start # None /\ Unwrap(pause_start) < now

\* C6: after a PlayFile that loaded, and Pause and Resume commands only, every
\* Snapshot reports the time the track has played, pauses excluded, within
\* one polling interval.
C6_PauseResumeAccounting ==
    hist.pr_only =>
        \A st \in Snapshots(out) : Abs(st.position - hist.played) <= PollTicks

\* play, pause, resume, play again, and a Snapshot of the time played
C6_Witness ==
    /\ hist.pr_only /\ hist.played >= 2 /\ accumulated_pause >= 1
    /\ playback_start # None
    /\ now = Unwrap(playback_start) + hist.played + accumulated_pause
    /\ \E st \in Snapshots(out) : st.position = hist.played

\* C7: on a loaded track with total_duration > 0, after a Seek to a target
\* >= total_duration and before any further command, every Snapshot reports
\* position = total_duration.
C7_SeekClamp ==
    (/\ last_cmd.kind = "Seek" /\ has_started /\ ~SinkEmpty(sink)
     /\ total_duration > 0 /\ last_cmd.n >= total_duration)
        => \A st \in Snapshots(out) : st.position = total_duration

\* C8: every Snapshot has 0 <= position <= duration when duration > 0.
C8_PositionWithinDuration ==
    \A st \in Snapshots(out) :
        st.duration > 0 => 0 <= st.position /\ st.position <= st.duration

\* C9: PlayFile(p) that loads, then Stop, then Resume: the Resume replays p;
\* its Snapshot reports position 0 and is_playing, no Started is sent, and
\* the timing state is that of a fresh load.
C9_ReplayFromStopped ==
    (hist.replay = 3 /\ last_step = "cmd") =>
        /\ Snapshots(out) = {Status(0, total_duration, TRUE)}
        /\ ~HasStarted(out)
        /\ playback_start = Some(now) /\ pause_start = None
        /\ accumulated_pause = 0 /\ seek_offset = 0
        /\ is_playing /\ has_started
        /\ sink.src = last_played_path /\ ~sink.paused

\* the Resume of such a run, processed some time after the load
C9_Witness ==
    /\ hist.replay = 3 /\ last_step = "cmd" /\ last_cmd = Resume
    /\ now > 0 /\ is_playing

\* C10: a PlayFile whose file does not decode leaves the worker's state and
\* the device as they were (the pass detecting no end of track).
C10_FailedPlayFileNoChange ==
    [][(/\ last_step' = "cmd" /\ last_cmd'.kind = "PlayFile"
        /\ ~(ReadOk(last_cmd'.path) /\ DecodeOk(last_cmd'.path))
        /\ ~HasFinished(out')) =>
          UNCHANGED <<last_played_path, total_duration, playback_start,
                      pause_start, accumulated_pause, seek_offset, is_playing,
                      has_started, sink>>]_vars

\* the last pass took a PlayFile; Loads tells whether its file reads and decodes
PlayFilePass == last_step = "cmd" /\ last_cmd.kind = "PlayFile"

Loads(cmd) == ReadOk(cmd.path) /\ DecodeOk(cmd.path)

\* C11 as stated: a pass that takes a PlayFile whose file does not read or
\* decode sends no status event at all: no Started, no Finished, no Snapshot.
C11_FailedPlayFileSilent ==
    (PlayFilePass /\ ~Loads(last_cmd)) => out = << >>

\* C11 amended: a pass that takes a PlayFile whose file does not read or
\* decode sends no Started; it sends exactly one event, the Snapshot forced
\* by the command or, if the loaded track had drained, the Finished.
C11_FailedPlayFileNoStarted ==
    (PlayFilePass /\ ~Loads(last_cmd)) =>
        /\ ~HasStarted(out)
        /\ Len(out) = 1
        /\ out[1].kind \in {"Status", "Finished"}

\* a failed PlayFile taken while a track plays, answered by a Snapshot
C11_Witness ==
    /\ PlayFilePass /\ ~Loads(last_cmd)
    /\ is_playing /\ ~SinkEmpty(sink)
    /\ Len(out) = 1 /\ out[1].kind = "Status"

\* C12: a PlayFile that loads resets the timing from every state:
\* playback_start is the instant of the pass, pause_start is None,
\* accumulated_pause and seek_offset are zero, is_playing and has_started
\* are set, last_played_path is the path; the pass sends Started(path) and
\* then a Snapshot that reports position 0.
C12_PlayFileFullReset ==
    (PlayFilePass /\ Loads(last_cmd)) =>
        /\ playback_start = Some(now) /\ pause_start = None
        /\ accumulated_pause = 0 /\ seek_offset = 0
        /\ is_playing /\ has_started
        /\ last_played_path = Some(last_cmd.path)
        /\ out = <<Started(last_cmd.path), Status(0, total_duration, TRUE)>>

\* a PlayFile that loads, taken some time after the thread started
C12_Witness ==
    /\ PlayFilePass /\ Loads(last_cmd)
    /\ now > 0
    /\ hist.replay = 1 /\ hist.played = 0
    /\ out = <<Started(last_cmd.path), Status(0, total_duration, TRUE)>>

\* C13: a Snapshot sent by a pass that took no command, no command having
\* been processed since the Snapshot before it, comes at least 100 ms after
\* that Snapshot; and while no command is processed, no more than
\* 100 ms + 20 ms pass after a Snapshot without the next one.
C13_Throttle ==
    [][/\ (/\ last_step' = "timeout" /\ Snapshots(out') # {}
            /\ hist.snap_at # None /\ ~hist.cmd_since) =>
              now' - Unwrap(hist.snap_at) >= ThrottleTicks
       /\ (hist'.snap_at # None /\ ~hist'.cmd_since) =>
              now' - Unwrap(hist'.snap_at) <= ThrottleTicks + PollTicks]_vars

\* the second of two Snapshots sent 100 ms apart by the timer alone
C13_Witness ==
    /\ last_step = "timeout" /\ Snapshots(out) # {}
    /\ now = 2 * ThrottleTicks
    /\ last_cmd = NoCmd
    /\ hist.snap_at = Some(now) /\ ~hist.cmd_since

\* the Snapshots the worker can send
AppSnapshots == {st \in AppStatuses : st.kind = "Status"}

\* C14: the consumer not dragging, a Snapshot whose position is less than
\* 1 s from the pending seek target clears the target, is adopted as
\* current_position and restarts the interpolation at the instant of the
\* frame; and the Snapshot after it, like every Snapshot received with no
\* seek target pending, is adopted in the same way.
C14_SeekConvergence ==
    \A st \in AppSnapshots : \A later \in AppSnapshots :
      ~app.is_seeking =>
        LET a1 == DrainStatus(app, <<st>>, now)
            a2 == DrainStatus(app, <<st, later>>, now)
            close == /\ app.seek_target # None
                     /\ Abs(st.position - Unwrap(app.seek_target)) < SecTicks
        IN  (close \/ app.seek_target = None) =>
              /\ a1.seek_target = None
              /\ a1.current_position = st.position
              /\ a1.last_sync_time = Some(now)
              /\ a2.seek_target = None
              /\ a2.current_position = later.position

\* a frame in which the user did nothing has just cleared the seek target
\* of 100 ticks by adopting a Snapshot at 60 ticks
C14_Witness ==
    /\ last_step = "frame" /\ last_input = NoInput
    /\ render.target_before = Some(100) /\ ~render.is_seeking
    /\ app.seek_target = None /\ app.current_position = 60
    /\ app.last_sync_time = Some(now)

\* C15: on every frame drawn while a seek target is pending and the user is
\* not dragging, the progress bar shows the seek target, whatever events
\* arrived and whatever the user did since the release.
C15_DisplayHoldsSeekTarget ==
    (last_step = "frame" /\ render.seek_target # None /\ ~render.is_seeking)
        => render.display_pos = Unwrap(render.seek_target)

\* C16: while the user drags the slider, a frame in which the user does
\* nothing else leaves current_position as it was, whatever status events
\* (Snapshot, Started, Finished) the frame receives.
C16_NoOverwriteWhileSeeking ==
    [][(last_step' = "frame" /\ last_input' = NoInput /\ app.is_seeking)
          => app'.current_position = app.current_position]_vars

\* C17: the position a frame shows on the progress bar lies between 0 and
\* the total duration the frame knows.
C17_DisplayWithinDuration ==
    last_step = "frame" =>
        0 <= render.display_pos /\ render.display_pos <= render.total_duration

\* C18: a frame whose last act was play_file, on a click on a playlist item,
\* on the play button or on the advance to the next track after Finished,
\* ends with current_position = 0, last_sync_time = now, is_playing set,
\* is_seeking cleared and no seek target.
C18_PlayResetsInterpolation ==
    (/\ last_step = "frame"
     /\ last_input.kind \in {"None", "PlayItem", "PlayPause"}
     /\ app.sent # << >>
     /\ app.sent[Len(app.sent)].kind = "PlayFile") =>
        /\ app.current_position = 0
        /\ app.last_sync_time = Some(now)
        /\ app.is_playing
        /\ ~app.is_seeking
        /\ app.seek_target = None

\* C19: the worker takes the commands of the UI and of the remote API one
\* per pass, each once and in the order in which they were put on the
\* command channel, and the consumer takes the status events in the order
\* in which the worker sent them.
C19_ChannelOrder ==
    /\ [](/\ log.deq_ok
          /\ InOrder(cmd_q, log.deq)
          /\ log.deq + Len(cmd_q) = log.enq
          /\ log.recv_ok
          /\ chan.ui => /\ InOrder(status_q, log.received)
                        /\ log.received + Len(status_q) = log.emitted)
    /\ [][log'.deq <= log.deq + 1]_vars

\* the worker has taken a PlayFile of "b" and then the Stop of the UI, and
\* the consumer has taken the Started and the Snapshot of the first pass
C19_Witness ==
    /\ last_step = "cmd" /\ log.deq = 2 /\ last_cmd = Stop
    /\ last_played_path = Some("b")
    /\ log.received >= 2 /\ app.current_playing_file = Some("b")

\* C20: once the status receiver is dropped, the worker's loop comes to
\* its end.
C20_WorkerTerminates == ~StatusRxAlive(chan) ~> ~chan.running

\* the app was dropped while a command waited; the worker has processed the
\* command and left its loop
C20_Witness ==
    /\ ~StatusRxAlive(chan) /\ ~chan.running
    /\ last_step = "break" /\ log.deq = log.enq /\ log.enq > 0

\* C21: at the end of every pass, playback_start is None exactly when the
\* device holds no track or playback is stopped (nothing loaded yet, or a
\* Stop or a Finished since the last load: has_started is cleared by those
\* and set by the loads of PlayFile and Resume only); so after Stop or
\* Finished it stays None until a PlayFile or a Resume loads a track,
\* whatever Seek, Pause or SetVolume commands arrive.
C21_PlaybackStartNoneIffIdle ==
    last_step \in {"cmd", "timeout"} =>
        (playback_start = None <=> (SinkEmpty(sink) \/ ~has_started))

Min(x, y) == IF x < y THEN x ELSE y

\* C22: a Seek taken while a track is loaded and paused leaves the worker
\* paused (is_playing false, the device paused and loaded), whichever way the
\* device answers try_seek; and the Snapshot of that pass and of every pass
\* until the next command reports min(target, total_duration), paused: the
\* position does not move with the clock.
C22_SeekWhilePaused ==
    [][(/\ last_step' \in {"cmd", "timeout"}
        /\ last_cmd'.kind = "Seek"
        /\ has_started /\ ~SinkEmpty(sink) /\ sink.paused /\ ~is_playing) =>
          /\ has_started' /\ ~SinkEmpty(sink') /\ sink'.paused /\ ~is_playing'
          /\ \A st \in Snapshots(out') :
               /\ st.position = Min(last_cmd'.n, total_duration')
               /\ ~st.is_playing]_vars

\* the worker's timing state
Timing(s) ==
    <<s.playback_start, s.pause_start, s.accumulated_pause, s.seek_offset,
      s.is_playing, s.has_started>>

\* C23: in every state of the worker and for every target, a Seek that the
\* device rejects and whose file reloads leaves the timing state that the
\* same Seek leaves when the device accepts it: playback_start = now,
\* accumulated_pause = 0, seek_offset = target, pause_start = now if the
\* worker is not playing and as it was otherwise, is_playing and has_started
\* as they were.
C23_SeekFallbackEquivalence ==
    \A pos \in SeekTargets :
      (last_played_path # None /\ ReadOk(Unwrap(last_played_path))
         /\ DecodeOk(Unwrap(last_played_path))) =>
        /\ Timing(SeekCmd(Cur, pos, FALSE, now))
             = Timing(SeekCmd(Cur, pos, TRUE, now))
        /\ Timing(SeekCmd(Cur, pos, FALSE, now))
             = <<Some(now), IF ~is_playing THEN Some(now) ELSE pause_start,
                 0, pos, is_playing, has_started>>

\* a Seek taken after a Stop, some time after the load, has gone the manual
\* way: the device holds the reloaded track though nothing was started
C23_Witness ==
    /\ last_step = "cmd" /\ last_cmd.kind = "Seek"
    /\ ~has_started /\ ~SinkEmpty(sink) /\ sink.paused
    /\ now > 0 /\ playback_start = Some(now) /\ pause_start = Some(now)
    /\ seek_offset = last_cmd.n

\* C24: the end of the track comes first: in every pass in which, the
\* command (if any) handled, has_started is set and the device drained, the
\* worker clears is_playing and has_started, sets playback_start to None and
\* sends Finished, and sends no Snapshot, forced or timed, in that pass.
C24_FinishedBeforeSnapshot ==
    (last_step \in {"cmd", "timeout"} /\ hist.ended = "due") =>
        /\ ~is_playing /\ ~has_started /\ playback_start = None
        /\ out = <<Finished>>

\* a SetVolume taken after the track had played to its end: the command
\* forces an update, and the pass sends Finished and no Snapshot
C24_Witness ==
    /\ last_step = "cmd" /\ last_cmd.kind = "SetVolume"
    /\ hist.ended = "due"
    /\ force_status_update /\ HasFinished(out) /\ Snapshots(out) = {}

\* the pass of this step took a Stop
StopPass == last_step' = "cmd" /\ last_cmd'.kind = "Stop"

\* C25: Stop produces no Finished.  The pass that takes Stop sends none, even
\* if the track had played to its end before the Stop was taken, and leaves
\* has_started cleared; a pass that begins with has_started cleared sends
\* none; and has_started is set again by a PlayFile or a Resume only.
C25_StopNeverFinished ==
    [][/\ (last_step' \in {"cmd", "timeout"} /\ (StopPass \/ ~has_started))
             => ~HasFinished(out')
       /\ StopPass => ~has_started'
       /\ (~has_started /\ has_started') =>
             (last_step' = "cmd" /\ last_cmd'.kind \in {"PlayFile", "Resume"})
      ]_vars

\* a track played to its end and the Stop was taken before the worker had
\* seen it: the pass has sent its Snapshot and no Finished
C25_Witness ==
    /\ hist.ended = "stopped" /\ last_step = "cmd" /\ last_cmd = Stop
    /\ out = <<Status(0, total_duration, FALSE)>>

----------------------------------------------------------------------------
(* The worker and the app on the two channels, the user playing the last   *)
(* item of the playlist and seeking in it once: after the release of the   *)
(* slider the user leaves the player alone.                                *)

\* the end of track "b", 1.2 s
SeekValues == {60}

SeekInputs ==
    {NoInput, Input("PlayItem", Playlist[Len(Playlist)], None),
     Input("DragStart", "", None)}
    \cup {Input("DragStop", "", Some(v)) : v \in SeekValues}

\* one call of update: it takes every status event waiting and sends the
\* commands of the frame
SeekFrame ==
    /\ \E input \in SeekInputs :
         /\ app.seek_target # None => input = NoInput
         /\ Frame(Untag(status_q), input)
    /\ log.enq + Len(app'.sent) <= MaxSent
    /\ cmd_q' = cmd_q \o Tagged(app'.sent, log.enq)
    /\ status_q' = << >>
    /\ log' = [log EXCEPT !.enq = @ + Len(app'.sent)]
    /\ UNCHANGED playlists
    /\ UNCHANGED <<now, sink, worker, out, last_cmd, hist, chan>>

\* the status events that may wait for the app while the worker idles
MaxIdleQ == 1

\* the instant o as a clock set back by d reads it
SetBack(o, d) == IF o = None THEN None ELSE Some(Unwrap(o) - d)

\* The timeout passes of a worker that holds no instant but
\* last_status_time, the app holding none either, go on for ever.  What the
\* worker and the app do depends on differences of instants only, so a pass
\* 20 ms later is a pass at the same reading of a clock set back by 20 ms,
\* last_status_time set back with it.
SeekIdlePass ==
    /\ chan.running
    /\ cmd_q = << >>
    /\ CmdSenders(chan) # {}
    /\ now = MaxChanTime
    /\ playback_start = None /\ pause_start = None
    /\ app.last_sync_time = None
    /\ Len(status_q) < MaxIdleQ
    /\ \E b \in {[Cur EXCEPT !.last_status_time = @ - PollTicks]} :
       \E r \in {Report(b, now)} :
         /\ Commit(r)
         /\ hist' = HistPass([hist EXCEPT !.snap_at = SetBack(@, PollTicks)],
                             NoCmd, b, b, r, PollTicks, now)
         /\ status_q' = SendAll(status_q, r.out, chan, 0)
    /\ last_step' = "timeout"
    /\ UNCHANGED playlists
    /\ UNCHANGED <<now, last_cmd, app, render, last_input, cmd_q, chan, log>>

NextSeek ==
    \/ ChanCommandPass
    \/ ChanTimeoutPass
    \/ SeekIdlePass
    \/ ChanDeviceDrain
    \/ SeekFrame

SpecSeek == Init /\ [][NextSeek]_vars

\* The worker's loop goes on while it can, and so do the frames of the app:
\* update is called again whenever the player asks for a repaint or the
\* pointer moves.
SpecSeekFair ==
    /\ SpecSeek
    /\ WF_vars(ChanCommandPass \/ ChanTimeoutPass \/ SeekIdlePass)
    /\ WF_vars(SeekFrame)

\* C26: the user having released the slider at a position within the track
\* and sending no further command, the seek target is cleared in the end,
\* also when the seek lands at the end of the track and the worker answers
\* with Finished.
C26_SeekEventuallyConverges ==
    (app.seek_target # None) ~> (app.seek_target = None)

\* C27: a Snapshot that is 1 s or more from the pending seek target, or that
\* is received while the user drags the slider, leaves current_position,
\* last_sync_time and seek_target as they were; and total_duration and
\* is_playing are taken from every Snapshot, in every state of the consumer.
C27_UnconvergedSnapshotFrame ==
    \A st \in AppSnapshots :
      LET a1 == DrainStatus(app, <<st>>, now)
          far == /\ app.seek_target # None
                 /\ Abs(st.position - Unwrap(app.seek_target)) >= SecTicks
      IN  /\ a1.total_duration = st.duration
          /\ a1.is_playing = st.is_playing
          /\ (app.is_seeking \/ far) =>
                /\ a1.current_position = app.current_position
                /\ a1.last_sync_time = app.last_sync_time
                /\ a1.seek_target = app.seek_target

\* the slider was released at 100 ticks of a track of 120, and a frame in
\* which the user did nothing has received a Snapshot of position 50,
\* duration 0, paused: the target and the position stay, the duration and
\* is_playing are the Snapshot's
C27_Witness ==
    /\ last_step = "frame" /\ last_input = NoInput
    /\ ~app.is_seeking /\ render.target_before = Some(100)
    /\ app.seek_target = Some(100) /\ app.current_position = 100
    /\ app.total_duration = 0 /\ ~app.is_playing

\* C28: SetVolume has no effect on the timing.  A pass that takes
\* SetVolume(v) leaves last_played_path, total_duration, pause_start,
\* accumulated_pause and seek_offset as they were, and playback_start,
\* is_playing and has_started too unless the tail of the pass finds the track
\* played to its end, as it would have without the command; the device gets
\* the volume; and the Snapshot the command forces reports the position the
\* reconstruction gives at that instant from the state before the command.
C28_SetVolumeNoTiming ==
    [][(last_step' = "cmd" /\ last_cmd'.kind = "SetVolume") =>
          /\ UNCHANGED <<last_played_path, total_duration, pause_start,
                         accumulated_pause, seek_offset>>
          /\ sink' = SinkSetVolume(sink, last_cmd'.n)
          /\ IF has_started /\ SinkEmpty(sink)
             THEN out' = <<Finished>>
             ELSE /\ UNCHANGED <<playback_start, is_playing, has_started>>
                  /\ out' = <<Status(ClampPos(Cur, CurrentPos(Cur, now)),
                                     total_duration, is_playing)>>]_vars

\* a SetVolume taken while a track plays that was paused and resumed, so
\* that the pauses count in the position the Snapshot reports
C28_Witness ==
    /\ last_step = "cmd" /\ last_cmd.kind = "SetVolume"
    /\ is_playing /\ ~SinkEmpty(sink) /\ accumulated_pause > 0
    /\ playback_start # None
    /\ out = <<Status(now - Unwrap(playback_start) + seek_offset
                          - accumulated_pause, total_duration, TRUE)>>
    /\ out[1].position > 0

\* C29: whenever a pass sends a Snapshot with is_playing = true, a track is
\* loaded and running: the sink holds a source and is not paused, and
\* playback_start is set; from the initial idle state and after any commands.
C29_PlayingMeansLoaded ==
    last_step \in {"cmd", "timeout"} =>
        \A st \in Snapshots(out) :
            st.is_playing =>
                ~SinkEmpty(sink) /\ ~sink.paused /\ playback_start # None

\* C30: the worker leaves its loop only when no Sender of the command
\* channel lives (neither the app's nor the remote API's) and every command
\* sent has been taken, each in the order of sending; and once no Sender
\* lives, it takes the commands that still wait and then leaves its loop.
C30_DrainThenTerminate ==
    /\ [](~chan.running =>
            /\ CmdSenders(chan) = {}
            /\ cmd_q = << >>
            /\ log.deq = log.enq /\ log.deq_ok)
    /\ (CmdSenders(chan) = {}) ~> (~chan.running)

\* the app and the server thread were gone while commands waited; the
\* worker has taken them and then left its loop
C30_Witness ==
    /\ ~chan.running /\ last_step = "break"
    /\ log.late = 2 /\ log.deq = log.enq

\* C31: Started(path) is sent by a PlayFile(path) that loads and by nothing
\* else, once per load and before the Snapshot of that pass, hence before
\* every Snapshot computed from the timing the load has reset; a Resume that
\* replays the last file resets the timing and sends no Started.
C31_StartedOnlyByPlayFile ==
    last_step \in {"cmd", "timeout"} =>
        /\ HasStarted(out) <=> (PlayFilePass /\ Loads(last_cmd))
        /\ \A i \in 1..Len(out) :
              out[i].kind = "Started" =>
                  i = 1 /\ out[i] = Started(last_cmd.path)
        /\ \A i \in 1..Len(out) :
              (out[i].kind = "Status" /\ HasStarted(out)) => i > 1

\* a Resume after the end of the track has replayed the file, some time
\* after the load: the timing is reset and the pass has sent its Snapshot only
C31_Witness ==
    /\ last_step = "cmd" /\ last_cmd = Resume
    /\ hist.after_fin = "resumed" /\ hist.resumes = 1
    /\ now > 0 /\ playback_start = Some(now) /\ ~SinkEmpty(sink)
    /\ out = <<Status(0, total_duration, TRUE)>>

\* C32: Resume while playing does nothing: taken when the device holds a
\* track and is not paused, it leaves the timing state and the device as
\* they were; so a Resume after a Resume, the track still in the device,
\* leaves what the first one left.
C32_ResumeWhilePlayingNoOp ==
    [][(/\ last_step' = "cmd" /\ last_cmd' = Resume
        /\ ~SinkEmpty(sink)
        /\ (~sink.paused \/ hist.resumes >= 1)) =>
          UNCHANGED <<last_played_path, total_duration, playback_start,
                      pause_start, accumulated_pause, seek_offset, is_playing,
                      has_started, sink>>]_vars

\* a second Resume, taken some time after the track was paused and resumed
C32_Witness ==
    /\ last_step = "cmd" /\ last_cmd = Resume /\ hist.resumes = 2
    /\ is_playing /\ has_started /\ ~SinkEmpty(sink) /\ ~sink.paused
    /\ accumulated_pause > 0 /\ playback_start # None
    /\ Unwrap(playback_start) + accumulated_pause < now

\* C37: in every state of the worker, is_playing implies pause_start = None:
\* no pause under way is subtracted from the position while the worker
\* reports that it plays.
C37_PlayingHasNoPauseStart == is_playing => pause_start = None

\* a track paused for a while plays again: the pause is folded into
\* accumulated_pause and pause_start is None
C37_Witness ==
    /\ is_playing /\ pause_start = None /\ accumulated_pause > 0
    /\ last_step = "timeout" /\ last_cmd = Resume /\ hist.resumes = 1
    /\ ~SinkEmpty(sink) /\ ~sink.paused

----------------------------------------------------------------------------
(* The playlists under their mutex: the sections of update that lock the   *)
(* PlaylistsManager or the LyricsState, in the order of the code, and the  *)
(* handlers of the API, each step of a thread interleaved with the steps   *)
(* of the others.                                                          *)

MaxApiSent == 1

\* the files a request to /play and the file dialog can name
ListPaths == {"b"}

rest == <<now, sink, worker, out, last_cmd, hist, consumer, chan>>

Request(k, n, o, p, i) ==
    [kind |-> k, name |-> n, other |-> o, path |-> p, index |-> i]

OptNames == {None} \cup {Some(n) : n \in ListNames}

\* the requests the API takes: /play by path or by index, /remove,
\* /playlist, /playlist/rename, /playlist/delete and /playlist/switch
Requests ==
    {Request("play", n, "", Some(p), None) : n \in OptNames, p \in ListPaths}
    \cup {Request("play", n, "", None, Some(0)) : n \in OptNames}
    \cup {Request("remove", n, "", None, Some(0)) : n \in OptNames}
    \cup {Request("get", None, "", None, None)}
    \cup {Request("rename", Some(n), o, None, None) :
             n \in ListNames, o \in ListNames}
    \cup {Request(k, None, o, None, None) :
             k \in {"delete", "switch"}, o \in ListNames}

\* what the handler of request q does to d, keys().next() yielding first
Handle(d, q, first) ==
    CASE q.kind = "play" -> api_play(d, q.name, q.path, q.index)
      [] q.kind = "remove" ->
           api_remove_from_playlist(d, q.name, UnwrapOr(q.index, 1))
      [] q.kind = "get" -> api_get_playlist(d)
      [] q.kind = "rename" ->
           api_rename_playlist(d, UnwrapOr(q.name, ""), q.other)
      [] q.kind = "delete" -> api_delete_playlist(d, q.other, first)
      [] q.kind = "switch" -> api_switch_playlist(d, q.other)

\* a thread reaches the lock() of a section
Reach(actor, site) ==
    /\ pc[actor] = Idle
    /\ pc' = [pc EXCEPT ![actor] = At(site, "lock")]
    /\ last_step' = "lock"
    /\ UNCHANGED <<data, dialogs, mutex, cmd_q, log>>
    /\ UNCHANGED rest

\* update comes to play_next, to the lyrics or to the playlist panel, or
\* the user confirms a dialog that is open
UiReach ==
    \E site \in {"play_next", "lyrics", "panel", "rename", "delete"} :
       /\ site = "rename" => dialogs.show_rename_dialog
       /\ site = "delete" => dialogs.show_delete_playlist_dialog
       /\ Reach("ui", site)

ViewportReach == Reach("viewport", "viewport")

HandlerReach == \E h \in Handlers : Reach(h, "handler")

\* lock() returns: the mutex was free
Acquire ==
    /\ \E actor \in Actors :
          /\ pc[actor].at = "lock"
          /\ mutex[MutexOf(pc[actor].site)] = None
          /\ mutex' = [mutex EXCEPT ![MutexOf(pc[actor].site)] = Some(actor)]
          /\ pc' = [pc EXCEPT ![actor].at = "held"]
    /\ last_step' = "lock"
    /\ UNCHANGED <<data, dialogs, cmd_q, log>>
    /\ UNCHANGED rest

\* the thread actor holds the guard of section site
Holds(actor, site) ==
    /\ pc[actor] = At(site, "held")
    /\ mutex[MutexOf(site)] = Some(actor)

\* the section of the thread actor ends with r; its guard is dropped and
\* the thread goes on to next
Leave(actor, r, next, step) ==
    /\ data' = r.data
    /\ dialogs' = r.dialogs
    /\ mutex' = Release(mutex, MutexOf(pc[actor].site))
    /\ pc' = [pc EXCEPT ![actor] = next]
    /\ last_step' = step
    /\ UNCHANGED <<cmd_q, log>>
    /\ UNCHANGED rest

\* the playlist panel: the selector, the rename and delete buttons and the
\* New Playlist button; then the guard is dropped and the Add Files button
\* (which opens the file dialog), the Clear List button or neither is
\* clicked
UiPanel ==
    /\ Holds("ui", "panel")
    /\ \E r \in {Shown(data, dialogs), RenameClick(data, dialogs),
                 DeleteClick(data, dialogs)}
                \cup {SelectPlaylist(data, dialogs, n) : n \in DOMAIN data.lists}
                \cup {NewPlaylist(data, dialogs, n) : n \in ListNames \cup {""}} :
       \E next \in {At("add", "dialog"), At("clear", "lock"),
                    At("display", "lock")} :
          /\ data' = r.data
          /\ dialogs' = r.dialogs
          /\ pc' = [pc EXCEPT !["ui"] = next]
    /\ mutex' = PanelDrop(mutex)
    /\ last_step' = "section"
    /\ UNCHANGED <<cmd_q, log>>
    /\ UNCHANGED rest

\* rfd::FileDialog::pick_files returns, with files or without
UiDialog ==
    /\ pc["ui"] = At("add", "dialog")
    /\ \E next \in {At("add", "lock"), At("display", "lock")} :
          pc' = [pc EXCEPT !["ui"] = next]
    /\ last_step' = "lock"
    /\ UNCHANGED <<data, dialogs, mutex, cmd_q, log>>
    /\ UNCHANGED rest

UiAdd ==
    /\ Holds("ui", "add")
    /\ \E path \in ListPaths :
          Leave("ui", AddFile(data, dialogs, path), At("display", "lock"),
                "section")

UiClear ==
    /\ Holds("ui", "clear")
    /\ Leave("ui", ClearList(data, dialogs), At("display", "lock"), "section")

\* the list of the items, with the context menu of the first item
UiDisplay ==
    /\ Holds("ui", "display")
    /\ \E r \in {Shown(data, dialogs), RemoveItem(data, dialogs, 0)} :
          Leave("ui", r, Idle, "section")

UiRename ==
    /\ Holds("ui", "rename")
    /\ \E name \in ListNames :
          Leave("ui", RenameOk(data, dialogs, name), Idle, "section")

\* the delete dialog is confirmed; the step is named after what the delete
\* finds: "delete_last" when it removes the only playlist there is
UiDelete ==
    /\ Holds("ui", "delete")
    /\ \E first \in FirstKeys(Remove(data.lists,
                                     UnwrapOr(dialogs.playlist_to_delete, ""))) :
          Leave("ui", DeleteOk(data, dialogs, first), Idle,
                IF first = None THEN "delete_last" ELSE "section")

\* Cancel in a dialog that is open: no lock is taken
UiCancel ==
    /\ pc["ui"] = Idle
    /\ \/ dialogs.show_rename_dialog
          /\ dialogs' = RenameCancel(data, dialogs).dialogs
       \/ dialogs.show_delete_playlist_dialog
          /\ dialogs' = DeleteCancel(data, dialogs).dialogs
    /\ last_step' = "section"
    /\ UNCHANGED <<data, mutex, pc, cmd_q, log>>
    /\ UNCHANGED rest

\* play_next reads the current playlist and drops its guard before
\* play_file; the sections of the lyrics read and write the LyricsState
UiRead ==
    /\ \E site \in {"play_next", "lyrics"} :
          /\ Holds("ui", site)
          /\ Leave("ui", Shown(data, dialogs), Idle, "section")

ViewportDraw ==
    /\ Holds("viewport", "viewport")
    /\ Leave("viewport", Shown(data, dialogs), Idle, "section")

\* a handler runs under its guard, drops it and sends what it has to send
HandlerRun ==
    \E h \in Handlers : \E q \in Requests :
    \E first \in FirstKeys(Remove(data.lists, q.other)) :
    \E r \in {Handle(data, q, first)} :
       /\ Holds(h, "handler")
       /\ log.enq + Len(r.sent) <= MaxApiSent
       /\ data' = r.data
       /\ mutex' = Release(mutex, "data")
       /\ pc' = [pc EXCEPT ![h] = Idle]
       /\ cmd_q' = cmd_q \o Tagged(r.sent, log.enq)
       /\ log' = [log EXCEPT !.enq = @ + Len(r.sent)]
       /\ last_step' = "section"
       /\ UNCHANGED dialogs
       /\ UNCHANGED rest

NextPlaylist ==
    \/ UiReach
    \/ ViewportReach
    \/ HandlerReach
    \/ Acquire
    \/ UiPanel
    \/ UiDialog
    \/ UiAdd
    \/ UiClear
    \/ UiDisplay
    \/ UiRename
    \/ UiDelete
    \/ UiCancel
    \/ UiRead
    \/ ViewportDraw
    \/ HandlerRun

SpecPlaylist == Init /\ [][NextPlaylist]_vars

\* C34: whatever the app's playlist panel and dialogs and the handlers of the
\* API do, each in its section under the playlist mutex and in any order,
\* current_name names a playlist that exists and there is at least one
\* playlist.
C34_CurrentNameExists ==
    /\ DOMAIN data.lists # {}
    /\ ContainsKey(data.lists, data.current_name)

\* the delete dialog was opened on the current playlist while there were
\* two; a request to the API deleted the other one; the user then confirmed,
\* the delete removed the only playlist there was and put "Default List" in
\* its place
C34_Witness ==
    /\ last_step = "delete_last"
    /\ DOMAIN data.lists = {DefaultName}
    /\ data.lists[DefaultName] = << >>
    /\ data.current_name = DefaultName
    /\ dialogs.playlist_to_delete = None

\* C35: the thread that holds the playlist mutex, or the lyrics mutex, is
\* inside the section that took it: it is not inside the file dialog and not
\* at the lock() of any mutex; so a thread that waits at a lock() waits for
\* a thread that runs, and no thread waits for itself.
C35_HolderRuns ==
    /\ \A which \in {"data", "lyrics"} :
          mutex[which] # None =>
             /\ pc[Unwrap(mutex[which])].at = "held"
             /\ MutexOf(pc[Unwrap(mutex[which])].site) = which
    /\ \A actor \in Actors :
          pc[actor].at \in {"lock", "dialog"} =>
             /\ mutex.data # Some(actor)
             /\ mutex.lyrics # Some(actor)

\* the app is inside the file dialog while a handler of the API holds the
\* playlist mutex and the viewport's callback the lyrics mutex
C35_Witness ==
    /\ pc["ui"] = At("add", "dialog")
    /\ \E h \in Handlers : mutex.data = Some(h) /\ pc[h] = At("handler", "held")
    /\ mutex.lyrics = Some("viewport")

----------------------------------------------------------------------------
(* The advance at the end of a track: the app alone, with the status       *)
(* events that follow a track (Started, Finished), the mode selector, and  *)
(* the requests to the API that change the current playlist under it.      *)

\* a handler of the API from its lock() to its sends, the mutex being free
\* (limit bounds the commands sent in a run)
ApiCall(requests, limit) ==
    /\ mutex.data = None
    /\ \E q \in requests :
       \E first \in FirstKeys(Remove(data.lists, q.other)) :
       \E r \in {Handle(data, q, first)} :
          /\ log.enq + Len(r.sent) <= limit
          /\ data' = r.data
          /\ cmd_q' = cmd_q \o Tagged(r.sent, log.enq)
          /\ log' = [log EXCEPT !.enq = @ + Len(r.sent)]
    /\ last_step' = "api"
    /\ UNCHANGED <<dialogs, mutex, pc>>
    /\ UNCHANGED rest

\* /playlist/switch, and /playlist/remove of the first item of the current
\* playlist
AdvanceRequests ==
    {q \in Requests :
        \/ q.kind = "switch"
        \/ q.kind = "remove" /\ q.name = None}

ApiListChange == ApiCall(AdvanceRequests, MaxApiSent)

\* the events that follow a track; Finished comes after a Started
AdvanceBatches(a) ==
    LET events == {Started(Playlist[i]) : i \in 1..Len(Playlist)}
                  \cup (IF a.current_playing_file = None THEN {}
                        ELSE {Finished})
    IN  UNION {[1..n -> events] : n \in 0..MaxBatch}

AdvanceInputs == {input \in UiInputs : input.kind \in {"None", "SelectMode"}}

\* one call of update; play_next takes the playlist mutex
AdvanceFrame ==
    /\ mutex.data = None
    /\ \E q \in AdvanceBatches(app) : \E input \in AdvanceInputs :
          Frame(q, input)
    /\ UNCHANGED playlists
    /\ UNCHANGED <<now, sink, worker, out, last_cmd, hist, status_q, channel>>

NextAdvance ==
    \/ AdvanceFrame
    \/ AppTick
    \/ ApiListChange

SpecAdvance == Init /\ [][NextAdvance]_vars

\* C36: a frame that finds Finished, and nothing else, advances by the
\* playback mode over the current playlist: Single sends nothing and clears
\* is_playing; SingleLoop sends PlayFile for the current file again; Order
\* sends PlayFile for the item after the current one and, after the last
\* item, sends nothing and clears is_playing; ListLoop does the same but
\* goes from the last item to the first; and at most one PlayFile is sent.
C36_AdvanceByMode ==
    [][(mutex.data = None /\ Frame(<<Finished>>, NoInput)) =>
          LET list == UnwrapOr(CurrentList(data), << >>)
              curr == app.current_playing_file
              idx == IF curr # None THEN PositionOf(list, Unwrap(curr))
                     ELSE None
              sent == app'.sent
              stops == sent = << >> /\ ~app'.is_playing
          IN  /\ Len(sent) <= 1
              /\ app.playback_mode = "Single" => stops
              /\ (app.playback_mode = "SingleLoop" /\ curr # None) =>
                    sent = <<PlayFile(Unwrap(curr))>>
              /\ (app.playback_mode = "Order" /\ idx # None) =>
                    IF Unwrap(idx) + 1 < Len(list)
                    THEN sent = <<PlayFile(list[Unwrap(idx) + 2])>>
                    ELSE stops
              /\ (app.playback_mode = "ListLoop" /\ idx # None) =>
                    sent = <<PlayFile(list[((Unwrap(idx) + 1) % Len(list)) + 1])>>
      ]_vars

----------------------------------------------------------------------------
(* The loads: the worker, the app and the API, each PlayFile of a file     *)
(* that decodes or of one that does not, from a click on an item of the    *)
(* current playlist or from a request to /play.                            *)

MaxLoadSent == 3

\* requests to /play by path, for the current playlist
LoadRequests ==
    {Request("play", None, "", Some(p), None) : p \in {"a", "bad"}}

ApiLoad == ApiCall(LoadRequests, MaxLoadSent)

\* what the user does: nothing, or a click on an item of the current
\* playlist
LoadInputs ==
    {NoInput} \cup {Input("PlayItem", p, None) : p \in Paths}

\* one call of update: it takes every status event waiting and sends the
\* PlayFile of the click
LoadFrame ==
    /\ mutex.data = None
    /\ \E input \in LoadInputs :
          /\ input.kind = "PlayItem" =>
                InList(UnwrapOr(CurrentList(data), << >>), input.path)
          /\ Frame(Untag(status_q), input)
    /\ log.enq + Len(app'.sent) <= MaxLoadSent
    /\ cmd_q' = cmd_q \o Tagged(app'.sent, log.enq)
    /\ status_q' = << >>
    /\ log' = [log EXCEPT !.enq = @ + Len(app'.sent),
                          !.received = @ + Len(status_q),
                          !.recv_ok = @ /\ InOrder(status_q, log.received)]
    /\ UNCHANGED playlists
    /\ UNCHANGED <<now, sink, worker, out, last_cmd, hist, chan>>

NextLoad ==
    \/ ChanCommandPass
    \/ ChanTimeoutPass
    \/ ChanDeviceDrain
    \/ LoadFrame
    \/ ApiLoad

SpecLoad == Init /\ [][NextLoad]_vars

\* C33: once the worker has taken every command sent and the app every
\* status event emitted, the app's current_playing_file names the track the
\* worker has in its sink, if it has one.
C33_NamesLoadedTrack ==
    (cmd_q = << >> /\ status_q = << >> /\ ~SinkEmpty(sink)) =>
        app.current_playing_file = sink.src

====
